---- MODULE Spec2Model ----
(***************************************************************************)
(* A model of markdowndiff: the Differ (matcher and edit-script            *)
(* generator of diff.py), the helpers of utils.py and the placeholder      *)
(* codec of placeholder.py.                                                *)
(*                                                                         *)
(* Trees.  An element tree is a record of sequences indexed by node id:    *)
(* tag, text, tail, attrib and kids (the ordered child ids), with root the *)
(* id of the root element (0: no tree, Python's None).  Node ids stand for *)
(* object identity (id(node)); the left and the right tree have their own  *)
(* id spaces.  A text is a sequence of one-letter words, the words of the  *)
(* string separated by single blanks (<<>>: None or ""); an attrib is a    *)
(* set of <<key, value>> pairs with keys numbered in alphabetical order.   *)
(***************************************************************************)
EXTENDS Integers, Sequences, FiniteSets, TLC

\* ---------------------------------------------------------------- bounds

\* Largest number of nodes of an input tree of the diff runs.
MaxNodes == 3
\* Largest number of nodes of the tree diffed against itself.
MaxSameNodes == 5
\* Largest number of API calls on one Differ in the API specification.
MaxCalls == 3
\* Number of attribute keys of the nodes given to update_node_attr.
MaxAttrKeys == 3
\* Largest length of the uniqueattrs list given to node_ratio.
MaxUniqueAttrs == 2
\* Largest number of nodes of a tree given to the codec.
MaxCodecNodes == 4
\* Largest number of allocation calls on one codec.
MaxCodecCalls == 2
\* The nodes of a tree handed to the formatter.
MaxMoveNodes == 4
\* The nodes of a left tree diffed against a larger right tree.
MaxPosLeft == 3
\* The nodes of the trees given to match in the refinement specification.
MaxRefineLeft == 3
MaxRefineRight == 5
\* The lengths of the sequences given to longest_common_subsequence.
MaxLcsLeft == 3
MaxLcsRight == 4
\* The actions of one script that the formatter handles.
MaxPipeCalls == 16
MaxRichNodes == 3
MaxFmtNodes == 3
\* The highest k of a step name[k] and the highest position of an action.
MaxIndex == 2
\* The actions of a script handed to the formatter.
MaxFmtCalls == 2

\* ------------------------------------------------------------- utilities

Max(a, b) == IF a >= b THEN a ELSE b

Range(s) == {s[i] : i \in 1..Len(s)}

RECURSIVE Flatten(_)
Flatten(ss) == IF ss = <<>> THEN <<>> ELSE Head(ss) \o Flatten(Tail(ss))

\* s without the element at index i
RemoveAt(s, i) == SubSeq(s, 1, i - 1) \o SubSeq(s, i + 1, Len(s))

\* list.remove(x): s without the first occurrence of x (s itself if absent)
RemoveFirst(s, x) ==
    IF \E i \in 1..Len(s) : s[i] = x
      THEN RemoveAt(s, CHOOSE i \in 1..Len(s) :
                          s[i] = x /\ \A j \in 1..(i - 1) : s[j] # x)
      ELSE s

\* list.insert(pos, x) with a 0-based pos >= 0: past the end appends
InsertAt(s, pos, x) ==
    IF pos >= Len(s) THEN Append(s, x)
    ELSE SubSeq(s, 1, pos) \o <<x>> \o SubSeq(s, pos + 1, Len(s))

\* list.index(x), 0-based
IndexOf(s, x) == (CHOOSE i \in 1..Len(s) :
                      s[i] = x /\ \A j \in 1..(i - 1) : s[j] # x) - 1

Reverse(s) == [i \in 1..Len(s) |-> s[Len(s) + 1 - i]]

\* The elements of a finite set of integers in ascending order: sorted(keys)
RECURSIVE Sorted(_)
Sorted(S) ==
    IF S = {} THEN <<>>
    ELSE LET m == CHOOSE x \in S : \A y \in S : x <= y
         IN <<m>> \o Sorted(S \ {m})

\* ----------------------------------------------------------------- trees

NoTree == [root |-> 0, tag |-> <<>>, text |-> <<>>, tail |-> <<>>,
           attrib |-> <<>>, kids |-> <<>>]

Nodes(t) == 1..Len(t.tag)

\* node.getparent(): 0 for the root and for a detached node
Parent(t, n) ==
    IF \E p \in Nodes(t) : n \in Range(t.kids[p])
      THEN CHOOSE p \in Nodes(t) : n \in Range(t.kids[p])
      ELSE 0

\* utils.post_order_traverse
RECURSIVE post_order_traverse(_, _)
post_order_traverse(t, n) ==
    Flatten([i \in 1..Len(t.kids[n]) |-> post_order_traverse(t, t.kids[n][i])])
      \o <<n>>

\* A traversal of the children from the first to the last.
ForwardPostOrder(t, n) == post_order_traverse(t, n)

\* utils.reverse_post_order_traverse
RECURSIVE reverse_post_order_traverse(_, _)
reverse_post_order_traverse(t, n) ==
    Flatten([i \in 1..Len(t.kids[n]) |->
                reverse_post_order_traverse(t, Reverse(t.kids[n])[i])])
      \o <<n>>

\* utils.breadth_first_traverse, from its queue
RECURSIVE BfsFrom(_, _)
BfsFrom(t, queue) ==
    IF queue = <<>> THEN <<>>
    ELSE <<Head(queue)>> \o BfsFrom(t, Tail(queue) \o t.kids[Head(queue)])

breadth_first_traverse(t, n) == BfsFrom(t, <<n>>)

\* Structural equality of the subtree of a at x and the subtree of b at y:
\* tag, attrib, text, tail and the children in order.
RECURSIVE SubtreeEq(_, _, _, _)
SubtreeEq(a, x, b, y) ==
    /\ a.tag[x] = b.tag[y]
    /\ a.attrib[x] = b.attrib[y]
    /\ a.text[x] = b.text[y]
    /\ a.tail[x] = b.tail[y]
    /\ Len(a.kids[x]) = Len(b.kids[y])
    /\ \A i \in 1..Len(a.kids[x]) : SubtreeEq(a, a.kids[x][i], b, b.kids[y][i])

TreeEq(a, b) ==
    /\ (a.root = 0) = (b.root = 0)
    /\ a.root # 0 => SubtreeEq(a, a.root, b, b.root)

\* ------------------------------------------------- the input trees

Tags == {"a", "b"}

\* The label of a node: what the parser sets on it.
Label(tg, tx, tl, at) == [tag |-> tg, text |-> tx, tail |-> tl, attrib |-> at]

\* Labels of the diff runs: a leaf text, a second text sharing one of two
\* words with the first (leaf ratio 1/2), an empty text, a tail, attributes.
DiffLabels ==
    { Label("a", <<"x">>, <<>>, {}),
      Label("a", <<"x", "y">>, <<>>, {<<1, "u">>}),
      Label("b", <<>>, <<"z">>, {<<1, "v">>, <<2, "u">>}) }

\* Labels of the tree diffed against itself.
SameLabels ==
    { Label("a", <<"x">>, <<>>, {}),
      Label("b", <<"y">>, <<>>, {}) }

RECURSIVE IsAncOrSelf(_, _, _)
IsAncOrSelf(p, a, n) ==
    IF n = a THEN TRUE
    ELSE IF n = 0 THEN FALSE
    ELSE IsAncOrSelf(p, a, p[n])

\* The parent vectors of the ordered trees of n nodes, numbered in document
\* order (node 1 is the root, the children of a node ascend).
Shapes(n) ==
    {p \in [1..n -> 0..(n - 1)] :
        /\ p[1] = 0
        /\ \A i \in 2..n : p[i] >= 1 /\ p[i] < i /\ IsAncOrSelf(p, p[i], i - 1)}

MkTree(p, lab) ==
    [root |-> 1,
     tag |-> [i \in 1..Len(p) |-> lab[i].tag],
     text |-> [i \in 1..Len(p) |-> lab[i].text],
     tail |-> [i \in 1..Len(p) |-> IF i = 1 THEN <<>> ELSE lab[i].tail],
     attrib |-> [i \in 1..Len(p) |-> lab[i].attrib],
     kids |-> [i \in 1..Len(p) |-> Sorted({j \in 1..Len(p) : p[j] = i})]]

TreesOf(n, labels) ==
    {MkTree(p, lab) : p \in Shapes(n), lab \in [1..n -> labels]}

TreesUpTo(maxn, labels) == UNION {TreesOf(n, labels) : n \in 1..maxn}


\* ---------------------------------------------------------- the LCS

\* utils.longest_common_subsequence over sequences of lslen and rslen items.
\* eq[i][j] is eqfn(left_sequence[i-1], right_sequence[j-1]); the predicates
\* passed by the Differ read no state that changes during the call.  The
\* result holds the 0-based index pairs of the code.
RECURSIVE TrimStart(_, _, _, _)
TrimStart(start, lend, rend, eq) ==
    IF start < lend /\ start < rend /\ eq[start + 1][start + 1]
      THEN TrimStart(start + 1, lend, rend, eq)
      ELSE start

\* The number of items trimmed off the end.
RECURSIVE TrimEnd(_, _, _, _)
TrimEnd(start, lend, rend, eq) ==
    IF start < lend /\ start < rend /\ eq[lend][rend]
      THEN 1 + TrimEnd(start, lend - 1, rend - 1, eq)
      ELSE 0

\* An inner loop that takes no item.
NoSnake(x, y, history, start, lmax, rmax, eq) ==
    [x |-> x, y |-> y, history |-> history]

\* The inner while loop: follow the diagonal from (x, y).
RECURSIVE Snake(_, _, _, _, _, _, _)
Snake(x, y, history, start, lmax, rmax, eq) ==
    IF x < lmax /\ y < rmax /\ eq[start + x + 1][start + y + 1]
      THEN Snake(x + 1, y + 1, Append(history, <<x + start, y + start>>),
                 start, lmax, rmax, eq)
      ELSE [x |-> x, y |-> y, history |-> history]

\* The loops over d and k; furthest maps a diagonal to <<x, history>>.
RECURSIVE LcsLoop(_, _, _, _, _, _, _)
LcsLoop(d, k, furthest, start, lmax, rmax, eq) ==
    IF d > lmax + rmax THEN <<>>
    ELSE IF k > d THEN LcsLoop(d + 1, -(d + 1), furthest, start, lmax, rmax, eq)
    ELSE
      LET down == k = -d \/ (k # d /\ furthest[k - 1][1] < furthest[k + 1][1])
          from == IF down THEN furthest[k + 1] ELSE furthest[k - 1]
          x0   == IF down THEN from[1] ELSE from[1] + 1
          After(s) ==
              IF s.x >= lmax /\ s.y >= rmax
                THEN s.history
                ELSE LcsLoop(d, k + 2,
                             [j \in DOMAIN furthest \cup {k} |->
                                 IF j = k THEN <<s.x, s.history>> ELSE furthest[j]],
                             start, lmax, rmax, eq)
      IN After(Snake(x0, x0 - k, from[2], start, lmax, rmax, eq))

longest_common_subsequence(lslen, rslen, eq) ==
    LET Trimmed(start, cut) ==
            LET lend  == lslen - cut
                rend  == rslen - cut
                lmax  == lend - start
                rmax  == rend - start
            IN IF lmax + rmax = 0
                 THEN [i \in 1..lslen |-> <<i - 1, i - 1>>]
                 ELSE [i \in 1..start |-> <<i - 1, i - 1>>]
                      \o LcsLoop(0, 0, [j \in {1} |-> <<0, <<>>>>],
                                 start, lmax, rmax, eq)
                      \o [i \in 1..cut |-> <<lend + i - 1, rend + i - 1>>]
        From(start) == Trimmed(start, TrimEnd(start, lslen, rslen, eq))
    IN From(TrimStart(0, lslen, rslen, eq))

\* --------------------------------------------------- node similarity

\* The threshold F of Differ.__init__, as the fraction FNum / FDen.
FNum == 1
FDen == 2

\* Ratios are fractions <<numerator, denominator>>, denominator > 0.
RatGe(a, b) == a[1] * b[2] >= b[1] * a[2]
RatGt(a, b) == a[1] * b[2] > b[1] * a[2]
RatIsOne(a) == a[1] = a[2]

\* attrib as a dict
Keys(at) == {kv[1] : kv \in at}
HasKey(at, k) == k \in Keys(at)
\* attrib.get(k): "" stands for None
Get(at, k) == IF HasKey(at, k) THEN (CHOOSE kv \in at : kv[1] = k)[2] ELSE ""
SetKey(at, k, v) == {kv \in at : kv[1] # k} \cup {<<k, v>>}
DelKey(at, k) == {kv \in at : kv[1] # k}

\* len() of a text: one-letter words separated by single blanks
TextLen(tx) == IF tx = <<>> THEN 0 ELSE 2 * Len(tx) - 1

\* Differ.node_text: the text children of the node (its text and the tails
\* of its children) joined by blanks, whitespace normalised.
node_text(t, n) ==
    t.text[n] \o Flatten([i \in 1..Len(t.kids[n]) |-> t.tail[t.kids[n][i]]])

\* Differ.node_weight
node_weight(t, n) == 1 + TextLen(node_text(t, n))

\* dmp.diff_levenshtein(dmp.diff_main(a, b)) on the word-folded strings: the
\* edit distance of the word sequences.
RECURSIVE Levenshtein(_, _)
Levenshtein(a, b) ==
    IF a = <<>> THEN Len(b)
    ELSE IF b = <<>> THEN Len(a)
    ELSE IF Head(a) = Head(b) THEN Levenshtein(Tail(a), Tail(b))
    ELSE LET Min3(d1, d2, d3) ==
                 LET m == IF d1 <= d2 THEN d1 ELSE d2
                 IN IF m <= d3 THEN m ELSE d3
         IN 1 + Min3(Levenshtein(Tail(a), b), Levenshtein(a, Tail(b)),
                     Levenshtein(Tail(a), Tail(b)))

\* Differ.leaf_ratio: <<weight, score>>
leaf_ratio(lt, l, rt, r) ==
    LET Ratio(ltext, rtext) ==
            LET total_weight == Max(Len(ltext), Len(rtext))
            IN IF ltext = <<>> /\ rtext = <<>>
                 THEN IF lt.tag[l] = rt.tag[r]
                        THEN <<1, <<1, 1>>>> ELSE <<0, <<0, 1>>>>
               ELSE IF ltext = <<>> \/ rtext = <<>>
                 THEN <<Max(TextLen(ltext), TextLen(rtext)), <<0, 1>>>>
               ELSE <<Max(TextLen(rtext), TextLen(ltext)),
                      <<total_weight - Levenshtein(ltext, rtext), total_weight>>>>
    IN Ratio(node_text(lt, l), node_text(rt, r))

\* The weight of the children of the sequence ns.
RECURSIVE SumWeights(_, _)
SumWeights(t, ns) ==
    IF ns = <<>> THEN 0 ELSE node_weight(t, Head(ns)) + SumWeights(t, Tail(ns))

\* The loop of child_ratio over left_children: right_children loses each
\* right child found to be the partner of a left child.
RECURSIVE EqualWeight(_, _, _, _, _)
EqualWeight(lt, lchildren, rt, rchildren, l2r) ==
    IF lchildren = <<>> THEN 0
    ELSE LET lchild == Head(lchildren)
             hit == lchild \in DOMAIN l2r /\ l2r[lchild] \in Range(rchildren)
         IN IF hit
              THEN node_weight(lt, lchild) + node_weight(rt, l2r[lchild])
                   + EqualWeight(lt, Tail(lchildren), rt,
                                 RemoveFirst(rchildren, l2r[lchild]), l2r)
              ELSE EqualWeight(lt, Tail(lchildren), rt, rchildren, l2r)

\* Differ.child_ratio: [none, total, equal] with weight total / 2 and ratio
\* equal / total; none is the (0, None) of two childless nodes.
child_ratio(lt, l, rt, r, l2r) ==
    IF lt.kids[l] = <<>> /\ rt.kids[r] = <<>>
      THEN [none |-> TRUE, total |-> 0, equal |-> 0]
      ELSE [none |-> FALSE,
            total |-> SumWeights(lt, lt.kids[l]) + SumWeights(rt, rt.kids[r]),
            equal |-> EqualWeight(lt, lt.kids[l], rt, rt.kids[r], l2r)]

\* The loop of node_ratio with the last entry of uniqueattrs tried first.
RECURSIVE UniqueAttrRatioLastFirst(_, _, _, _, _)
UniqueAttrRatioLastFirst(ua, ltag, lattrib, rtag, rattrib) ==
    IF ua = <<>> THEN "none"
    ELSE LET e == ua[Len(ua)]
             rest == SubSeq(ua, 1, Len(ua) - 1)
         IN IF e.tag # "" /\ (e.tag # ltag \/ e.tag # rtag)
              THEN UniqueAttrRatioLastFirst(rest, ltag, lattrib, rtag, rattrib)
            ELSE IF HasKey(lattrib, e.attr) \/ HasKey(rattrib, e.attr)
              THEN IF /\ HasKey(lattrib, e.attr) = HasKey(rattrib, e.attr)
                      /\ Get(lattrib, e.attr) = Get(rattrib, e.attr)
                     THEN "one" ELSE "zero"
            ELSE UniqueAttrRatioLastFirst(rest, ltag, lattrib, rtag, rattrib)

\* The loop of node_ratio over uniqueattrs; an entry is [tag, attr], tag ""
\* for the plain name form.  "none": no entry decided.
RECURSIVE UniqueAttrRatio(_, _, _, _, _)
UniqueAttrRatio(ua, ltag, lattrib, rtag, rattrib) ==
    IF ua = <<>> THEN "none"
    ELSE LET e == Head(ua)
         IN IF e.tag # "" /\ (e.tag # ltag \/ e.tag # rtag)
              THEN UniqueAttrRatio(Tail(ua), ltag, lattrib, rtag, rattrib)
            ELSE IF HasKey(lattrib, e.attr) \/ HasKey(rattrib, e.attr)
              THEN IF /\ HasKey(lattrib, e.attr) = HasKey(rattrib, e.attr)
                      /\ Get(lattrib, e.attr) = Get(rattrib, e.attr)
                     THEN "one" ELSE "zero"
            ELSE UniqueAttrRatio(Tail(ua), ltag, lattrib, rtag, rattrib)

\* Differ.node_ratio
node_ratio(lt, l, rt, r, l2r, ua) ==
    LET Ratio(u, leaf, child) ==
            IF u = "one" THEN <<1, 1>>
            ELSE IF u = "zero" THEN <<0, 1>>
            ELSE IF child.none THEN leaf[2]
            ELSE <<2 * leaf[1] * leaf[2][1] + child.equal * leaf[2][2],
                   leaf[2][2] * (2 * leaf[1] + child.total)>>
    IN Ratio(UniqueAttrRatio(ua, lt.tag[l], lt.attrib[l], rt.tag[r], rt.attrib[r]),
             leaf_ratio(lt, l, rt, r), child_ratio(lt, l, rt, r, l2r))


\* ------------------------------------------------------- the matcher

\* The match state: the dicts _l2rmap and _r2lmap (keyed by node identity)
\* and the list _matches.
EmptyMap == [x \in {} |-> 0]
NoMatches == [l2r |-> EmptyMap, r2l |-> EmptyMap, matches |-> <<>>]

MapSet(f, k, v) == [x \in DOMAIN f \cup {k} |-> IF x = k THEN v ELSE f[x]]
MapDel(f, k) == [x \in DOMAIN f \ {k} |-> f[x]]

\* append_match without its second assignment.
append_match_l2r_only(ms, lnode, rnode) ==
    [l2r |-> MapSet(ms.l2r, lnode, rnode),
     r2l |-> ms.r2l,
     matches |-> Append(ms.matches, <<lnode, rnode>>)]

\* Differ.append_match
append_match(ms, lnode, rnode) ==
    [l2r |-> MapSet(ms.l2r, lnode, rnode),
     r2l |-> MapSet(ms.r2l, rnode, lnode),
     matches |-> Append(ms.matches, <<lnode, rnode>>)]

\* Differ.remove_match
remove_match(ms, lnode, rnode) ==
    [l2r |-> MapDel(ms.l2r, lnode),
     r2l |-> MapDel(ms.r2l, rnode),
     matches |-> RemoveFirst(ms.matches, <<lnode, rnode>>)]

\* node_ratio(x, y) >= F
AboveF(ratio) == RatGe(ratio, <<FNum, FDen>>)

\* The inner loop of the greedy pass for lnode over rnodes: the first right
\* node attaining the highest ratio up to and including the first 1.0.
\* best is [node, ratio], node 0 for None.
RECURSIVE ScanRight(_, _, _, _, _, _, _)
ScanRight(lt, lnode, rt, rnodes, ms, ua, best) ==
    IF rnodes = <<>> THEN best
    ELSE LET Try(match) ==
                 LET b == IF RatGt(match, best.ratio)
                            THEN [node |-> Head(rnodes), ratio |-> match]
                            ELSE best
                 IN IF RatIsOne(match) THEN b
                    ELSE ScanRight(lt, lnode, rt, Tail(rnodes), ms, ua, b)
         IN Try(node_ratio(lt, lnode, rt, Head(rnodes), ms.l2r, ua))

\* The same loop of the refinement, for rchild over lchilds.
RECURSIVE ScanLeft(_, _, _, _, _, _, _)
ScanLeft(lt, lchilds, rt, rchild, ms, ua, best) ==
    IF lchilds = <<>> THEN best
    ELSE LET Try(match) ==
                 LET b == IF RatGt(match, best.ratio)
                            THEN [node |-> Head(lchilds), ratio |-> match]
                            ELSE best
                 IN IF RatIsOne(match) THEN b
                    ELSE ScanLeft(lt, Tail(lchilds), rt, rchild, ms, ua, b)
         IN Try(node_ratio(lt, Head(lchilds), rt, rchild, ms.l2r, ua))

NoBest == [node |-> 0, ratio |-> <<0, 1>>]

\* A greedy pass that leaves the chosen right node in the list.
RECURSIVE GreedyKeepsNode(_, _, _, _, _, _)
GreedyKeepsNode(lt, lnodes, rt, rnodes, ms, ua) ==
    IF lnodes = <<>> THEN ms
    ELSE LET lnode == Head(lnodes)
             Take(best) ==
                 IF AboveF(best.ratio)
                   THEN GreedyKeepsNode(lt, Tail(lnodes), rt, rnodes,
                                        append_match(ms, lnode, best.node), ua)
                   ELSE GreedyKeepsNode(lt, Tail(lnodes), rt, rnodes, ms, ua)
         IN Take(ScanRight(lt, lnode, rt, rnodes, ms, ua, NoBest))

\* The greedy pass (diff.py 110-129) over lnodes, with the right nodes left.
RECURSIVE GreedyPass(_, _, _, _, _, _)
GreedyPass(lt, lnodes, rt, rnodes, ms, ua) ==
    IF lnodes = <<>> THEN ms
    ELSE LET lnode == Head(lnodes)
             Take(best) ==
                 IF AboveF(best.ratio)
                   THEN GreedyPass(lt, Tail(lnodes), rt,
                                   IF best.node # 0
                                     THEN RemoveFirst(rnodes, best.node) ELSE rnodes,
                                   append_match(ms, lnode, best.node), ua)
                   ELSE GreedyPass(lt, Tail(lnodes), rt, rnodes, ms, ua)
         IN Take(ScanRight(lt, lnode, rt, rnodes, ms, ua, NoBest))

\* The fast path (diff.py 93-108): the pairs of the LCS are registered and
\* their nodes taken out of both lists.
FastMatches(lt, lnodes, rt, rnodes, ua) ==
    longest_common_subsequence(Len(lnodes), Len(rnodes),
        [i \in 1..Len(lnodes) |-> [j \in 1..Len(rnodes) |->
            AboveF(node_ratio(lt, lnodes[i], rt, rnodes[j], EmptyMap, ua))]])

RECURSIVE AppendAll(_, _, _, _)
AppendAll(ms, lnodes, rnodes, pairs) ==
    IF pairs = <<>> THEN ms
    ELSE AppendAll(append_match(ms, lnodes[Head(pairs)[1] + 1],
                                rnodes[Head(pairs)[2] + 1]),
                   lnodes, rnodes, Tail(pairs))

\* nodes after popping the indices idx (0-based) from the last to the first
RECURSIVE PopAll(_, _)
PopAll(nodes, idx) ==
    IF idx = <<>> THEN nodes
    ELSE PopAll(RemoveAt(nodes, idx[Len(idx)] + 1), SubSeq(idx, 1, Len(idx) - 1))

\* The pruning loop of the refinement (diff.py 138-144): the child pairs
\* already matched to each other leave both lists.  todo is list(rchilds).
RECURSIVE PruneChilds(_, _, _, _)
PruneChilds(todo, lchilds, rchilds, ms) ==
    IF todo = <<>> THEN [lchilds |-> lchilds, rchilds |-> rchilds]
    ELSE LET rchild == Head(todo)
         IN IF rchild \in DOMAIN ms.r2l /\ ms.r2l[rchild] \in Range(lchilds)
              THEN PruneChilds(Tail(todo), RemoveFirst(lchilds, ms.r2l[rchild]),
                               RemoveFirst(rchilds, rchild), ms)
              ELSE PruneChilds(Tail(todo), lchilds, rchilds, ms)

\* The match of one remaining right child (diff.py 146-164).
RefineChild(lt, lchilds, rt, rchild, ms, ua) ==
    LET Drop(ms1, best) ==
            IF best.node \in DOMAIN ms1.l2r
              THEN remove_match(ms1, best.node, ms1.l2r[best.node]) ELSE ms1
        Take(best) ==
            IF AboveF(best.ratio)
              THEN append_match(
                     Drop(IF rchild \in DOMAIN ms.r2l
                            THEN remove_match(ms, ms.r2l[rchild], rchild) ELSE ms,
                          best),
                     best.node, rchild)
              ELSE ms
    IN Take(ScanLeft(lt, lchilds, rt, rchild, ms, ua, NoBest))

RECURSIVE RefineChilds(_, _, _, _, _, _)
RefineChilds(lt, lchilds, rt, rchilds, ms, ua) ==
    IF rchilds = <<>> THEN ms
    ELSE RefineChilds(lt, lchilds, rt, Tail(rchilds),
                      RefineChild(lt, lchilds, rt, Head(rchilds), ms, ua), ua)

\* The top-down refinement (diff.py 131-164) over the right nodes in
\* breadth-first order.
RECURSIVE Refine(_, _, _, _, _)
Refine(lt, rt, rnodes, ms, ua) ==
    IF rnodes = <<>> THEN ms
    ELSE LET rnode == Head(rnodes)
         IN IF rnode \in DOMAIN ms.r2l /\ rt.kids[rnode] # <<>>
              THEN LET lnode == ms.r2l[rnode]
                       Rest(p) ==
                           Refine(lt, rt, Tail(rnodes),
                                  RefineChilds(lt, p.lchilds, rt, p.rchilds, ms, ua),
                                  ua)
                   IN Rest(PruneChilds(rt.kids[rnode], lt.kids[lnode],
                                       rt.kids[rnode], ms))
              ELSE Refine(lt, rt, Tail(rnodes), ms, ua)

\* Differ.match from "Initialize the caches" on (diff.py 77-168): the match
\* state it returns for the trees lt and rt.
ComputeMatch(lt, rt, ua, fast) ==
    LET Slow(lnodes0, rnodes0, pairs) ==
            LET ms0 == AppendAll(NoMatches, lnodes0, rnodes0, pairs)
                lnodes == PopAll(lnodes0, [i \in 1..Len(pairs) |-> pairs[i][1]])
                rnodes == PopAll(rnodes0, [i \in 1..Len(pairs) |-> pairs[i][2]])
                ms1 == GreedyPass(lt, lnodes, rt, rnodes, ms0, ua)
                ms2 == Refine(lt, rt, breadth_first_traverse(rt, rt.root), ms1, ua)
            IN append_match(ms2, lt.root, rt.root)
        Fast(lnodes0, rnodes0) ==
            Slow(lnodes0, rnodes0,
                 IF fast THEN FastMatches(lt, lnodes0, rt, rnodes0, ua) ELSE <<>>)
    IN Fast(RemoveFirst(post_order_traverse(lt, lt.root), lt.root),
            RemoveFirst(post_order_traverse(rt, rt.root), rt.root))


\* ------------------------------------------------------------- paths

\* One step of tree.getpath(n): <<tag, k>>, k the 1-based position of n
\* among its siblings of the same tag, 0 when lxml writes no [k] (n is the
\* root or has no sibling of its tag).
PathStep(t, n) ==
    LET p == Parent(t, n)
        same == IF p = 0 THEN <<n>>
                ELSE SelectSeq(t.kids[p], LAMBDA c : t.tag[c] = t.tag[n])
    IN IF Len(same) = 1 THEN <<t.tag[n], 0>>
       ELSE <<t.tag[n], IndexOf(same, n) + 1>>

RECURSIVE TreeGetPath(_, _)
TreeGetPath(t, n) ==
    IF Parent(t, n) = 0 THEN <<PathStep(t, n)>>
    ELSE Append(TreeGetPath(t, Parent(t, n)), PathStep(t, n))

\* utils.getpath: a last step written without a count gets [1].
getpath(t, n) ==
    LET Counted(xpath) ==
            LET last == xpath[Len(xpath)]
            IN IF last[2] # 0 THEN xpath
               ELSE [xpath EXCEPT ![Len(xpath)] = <<last[1], 1>>]
    IN Counted(TreeGetPath(t, n))

\* ------------------------------------------------------- the actions

InsertNode(target, tag, position) ==
    [op |-> "InsertNode", target |-> target, tag |-> tag, position |-> position]
DeleteNode(node) == [op |-> "DeleteNode", node |-> node]
MoveNode(node, target, position) ==
    [op |-> "MoveNode", node |-> node, target |-> target, position |-> position]
RenameNode(node, tag) == [op |-> "RenameNode", node |-> node, tag |-> tag]
UpdateTextIn(node, text) == [op |-> "UpdateTextIn", node |-> node, text |-> text]
UpdateTextAfter(node, text) ==
    [op |-> "UpdateTextAfter", node |-> node, text |-> text]
InsertAttrib(node, name, value) ==
    [op |-> "InsertAttrib", node |-> node, name |-> name, value |-> value]
DeleteAttrib(node, name) == [op |-> "DeleteAttrib", node |-> node, name |-> name]
UpdateAttrib(node, name, value) ==
    [op |-> "UpdateAttrib", node |-> node, name |-> name, value |-> value]

\* ------------------------------------------- the edit-script generator

\* parent.remove(n) on the left tree
TreeRemove(t, n) ==
    [t EXCEPT !.kids[Parent(t, n)] = RemoveFirst(@, n)]

\* An insert that ignores the position and appends.
TreeInsertLast(t, target, pos, n) ==
    [t EXCEPT !.kids[target] = Append(@, n)]

\* target.insert(pos, n)
TreeInsert(t, target, pos, n) ==
    [t EXCEPT !.kids[target] = InsertAt(@, pos, n)]

\* ltarget.makeelement(tag): a new node of the left tree
TreeMakeElement(t, tag) ==
    [t EXCEPT !.tag = Append(@, tag), !.text = Append(@, <<>>),
              !.tail = Append(@, <<>>), !.attrib = Append(@, {}),
              !.kids = Append(@, <<>>)]

\* The three loops of update_node_attr over the sorted keys; a is the
\* attrib of the left node as changed so far, out the actions yielded.
RECURSIVE UpdateLoop(_, _, _, _, _)
UpdateLoop(keys, left_xpath, a, rattrib, out) ==
    IF keys = <<>> THEN [attrib |-> a, out |-> out]
    ELSE LET key == Head(keys)
         IN IF Get(a, key) # Get(rattrib, key)
              THEN UpdateLoop(Tail(keys), left_xpath,
                              SetKey(a, key, Get(rattrib, key)), rattrib,
                              Append(out, UpdateAttrib(left_xpath, key,
                                                       Get(rattrib, key))))
              ELSE UpdateLoop(Tail(keys), left_xpath, a, rattrib, out)

RECURSIVE InsertLoop(_, _, _, _, _)
InsertLoop(keys, left_xpath, a, rattrib, out) ==
    IF keys = <<>> THEN [attrib |-> a, out |-> out]
    ELSE LET key == Head(keys)
         IN InsertLoop(Tail(keys), left_xpath,
                       SetKey(a, key, Get(rattrib, key)), rattrib,
                       Append(out, InsertAttrib(left_xpath, key,
                                                Get(rattrib, key))))

RECURSIVE DeleteLoop(_, _, _, _)
DeleteLoop(keys, left_xpath, a, out) ==
    IF keys = <<>> THEN [attrib |-> a, out |-> out]
    ELSE LET key == Head(keys)
         IN IF ~HasKey(a, key)
              THEN DeleteLoop(Tail(keys), left_xpath, a, out)
              ELSE DeleteLoop(Tail(keys), left_xpath, DelKey(a, key),
                              Append(out, DeleteAttrib(left_xpath, key)))

\* update_node_attr with its insert loop run before its update loop.
update_node_attr_insert_first(left_xpath, lattrib, rattrib) ==
    LET left_keys == Keys(lattrib)
        right_keys == Keys(rattrib)
        new_keys == right_keys \ left_keys
        removed_keys == left_keys \ right_keys
        common_keys == left_keys \cap right_keys
        Deletes(u) == DeleteLoop(Sorted(removed_keys), left_xpath, u.attrib, u.out)
        Updates(i) == Deletes(UpdateLoop(Sorted(common_keys), left_xpath, i.attrib,
                                         rattrib, i.out))
    IN Updates(InsertLoop(Sorted(new_keys), left_xpath, lattrib, rattrib, <<>>))

\* Differ.update_node_attr on a left node at left_xpath with attrib lattrib
\* against a right node with attrib rattrib: [attrib, out].
update_node_attr(left_xpath, lattrib, rattrib) ==
    LET left_keys == Keys(lattrib)
        right_keys == Keys(rattrib)
        new_keys == right_keys \ left_keys
        removed_keys == left_keys \ right_keys
        common_keys == left_keys \cap right_keys
        Deletes(i) == DeleteLoop(Sorted(removed_keys), left_xpath, i.attrib, i.out)
        Inserts(u) == Deletes(InsertLoop(Sorted(new_keys), left_xpath, u.attrib,
                                         rattrib, u.out))
    IN Inserts(UpdateLoop(Sorted(common_keys), left_xpath, lattrib, rattrib, <<>>))

\* The state the generator works on: the left copy, the match state, the
\* in-order set (of <<"L", n>> and <<"R", n>>) and the actions yielded.
LNode(n) == <<"L", n>>
RNode(n) == <<"R", n>>

\* "child not in self._l2rmap" (diff.py 343) looks an element up among keys
\* that are id() integers: the element is never found.
ElementInL2rmap(child, l2r) == FALSE

\* The first loop of find_pos: the last sibling before index i that is in
\* order, 0 for none.
RECURSIVE LastInOrderBefore(_, _, _)
LastInOrderBefore(siblings, i, inorder) ==
    IF i < 1 THEN 0
    ELSE IF RNode(siblings[i]) \in inorder THEN siblings[i]
    ELSE LastInOrderBefore(siblings, i - 1, inorder)

\* The second loop of find_pos over the children of the partner's parent.
RECURSIVE CountUpTo(_, _, _, _, _, _)
CountUpTo(children, node_match, sibling_match, inorder, l2r, i) ==
    IF children = <<>> THEN i
    ELSE LET child == Head(children)
         IN IF child = node_match
              THEN CountUpTo(Tail(children), node_match, sibling_match,
                             inorder, l2r, i)
            ELSE LET j == IF LNode(child) \in inorder
                             \/ ~ElementInL2rmap(child, l2r)
                            THEN i + 1 ELSE i
                 IN IF child = sibling_match THEN j
                    ELSE CountUpTo(Tail(children), node_match, sibling_match,
                                   inorder, l2r, j)

\* Differ.find_pos for the right node
find_pos(g, rt, node) ==
    LET node_match == IF node \in DOMAIN g.ms.r2l THEN g.ms.r2l[node] ELSE 0
        After(sibling_match) ==
            CountUpTo(g.left.kids[Parent(g.left, sibling_match)], node_match,
                      sibling_match, g.inorder, g.ms.l2r, 0)
        Before(sibling) == IF sibling = 0 THEN 0 ELSE After(g.ms.r2l[sibling])
        Among(siblings) ==
            Before(LastInOrderBefore(siblings, IndexOf(siblings, node), g.inorder))
    IN Among(rt.kids[Parent(rt, node)])


\* yield a: the action joins the script, the left copy being as it is.
Emit(g, a) == [g EXCEPT !.out = Append(@, a), !.before = Append(@, g.left)]
MarkInOrder(g, lnode, rnode) ==
    [g EXCEPT !.inorder = @ \cup {LNode(lnode), RNode(rnode)}]

\* The first loop of align_children: the pairs of the LCS are in order.
RECURSIVE MarkLcs(_, _, _, _)
MarkLcs(g, lchildren, rchildren, lcs) ==
    IF lcs = <<>> THEN g
    ELSE MarkLcs(MarkInOrder(g, lchildren[Head(lcs)[1] + 1],
                             rchildren[Head(lcs)[2] + 1]),
                 lchildren, rchildren, Tail(lcs))

\* The second loop of align_children: each left child not in order moves.
RECURSIVE MoveLoop(_, _, _, _)
MoveLoop(g, rt, left, lchildren) ==
    IF lchildren = <<>> THEN g
    ELSE LET lchild == Head(lchildren)
         IN IF LNode(lchild) \in g.inorder
              THEN MoveLoop(g, rt, left, Tail(lchildren))
              ELSE LET rchild == g.ms.l2r[lchild]
                       Move(ltarget, right_pos) ==
                           LET g1 == Emit(g, MoveNode(getpath(g.left, lchild),
                                                      getpath(g.left, ltarget),
                                                      right_pos))
                               g2 == [g1 EXCEPT !.left =
                                        TreeInsert(TreeRemove(@, lchild),
                                                   ltarget, right_pos, lchild)]
                           IN MoveLoop(MarkInOrder(g2, lchild, rchild), rt, left,
                                       Tail(lchildren))
                   IN Move(g.ms.r2l[Parent(rt, rchild)], find_pos(g, rt, rchild))

\* An alignment that moves no child.
AlignNothing(g, rt, left, right) == g

\* Differ.align_children
align_children(g, rt, left, right) ==
    LET Align(lchildren, rchildren) ==
            LET lcs == longest_common_subsequence(Len(lchildren), Len(rchildren),
                          [i \in 1..Len(lchildren) |-> [j \in 1..Len(rchildren) |->
                              g.ms.l2r[lchildren[i]] = rchildren[j]]])
            IN IF lchildren = <<>> \/ rchildren = <<>> THEN g
               ELSE MoveLoop(MarkLcs(g, lchildren, rchildren, lcs), rt, left,
                             lchildren)
    IN Align(SelectSeq(g.left.kids[left], LAMBDA c :
                 c \in DOMAIN g.ms.l2r /\ Parent(rt, g.ms.l2r[c]) = right),
             SelectSeq(rt.kids[right], LAMBDA c :
                 c \in DOMAIN g.ms.r2l /\ Parent(g.left, g.ms.r2l[c]) = left))

\* Differ.update_node_tag
update_node_tag(g, rt, left, right) ==
    IF g.left.tag[left] # rt.tag[right]
      THEN [Emit(g, RenameNode(getpath(g.left, left), rt.tag[right]))
              EXCEPT !.left.tag[left] = rt.tag[right]]
      ELSE g

\* update_node_attr applied to the left node
UpdateAttrOf(g, rt, left, right) ==
    LET Apply(u) ==
            [g EXCEPT !.left.attrib[left] = u.attrib, !.out = @ \o u.out,
                      !.before = @ \o [i \in 1..Len(u.out) |-> g.left]]
    IN Apply(update_node_attr(getpath(g.left, left), g.left.attrib[left],
                              rt.attrib[right]))

\* Differ.update_node_text
update_node_text(g, rt, left, right) ==
    LET TailOf(left_xpath, g1) ==
            IF g1.left.tail[left] # rt.tail[right]
              THEN [Emit(g1, UpdateTextAfter(left_xpath, rt.tail[right]))
                      EXCEPT !.left.tail[left] = rt.tail[right]]
              ELSE g1
        TextOf(left_xpath) ==
            TailOf(left_xpath,
                   IF g.left.text[left] # rt.text[right]
                     THEN [Emit(g, UpdateTextIn(left_xpath, rt.text[right]))
                             EXCEPT !.left.text[left] = rt.text[right]]
                     ELSE g)
    IN TextOf(getpath(g.left, left))

\* (b) Insert (diff.py 411-430): rnode has no partner
InsertStep(g, rt, rnode, ltarget) ==
    LET lnode == Len(g.left.tag) + 1
        Insert(pos) ==
            LET g1 == Emit(g, InsertNode(getpath(g.left, ltarget), rt.tag[rnode],
                                         pos))
                g2 == [g1 EXCEPT !.left = TreeInsert(TreeMakeElement(@, rt.tag[rnode]),
                                                     ltarget, pos, lnode),
                                 !.ms = append_match(@, lnode, rnode)]
            IN UpdateAttrOf(MarkInOrder(g2, lnode, rnode), rt, lnode, rnode)
    IN Insert(find_pos(g, rt, rnode))

\* A step for the matched node that leaves it where it is.
MatchedStepNoMove(g, rt, rnode, ltarget) ==
    UpdateAttrOf(update_node_tag(g, rt, g.ms.r2l[rnode], rnode), rt,
                 g.ms.r2l[rnode], rnode)

\* (c) the matched node (diff.py 433-460): move, rename, attributes
MatchedStep(g, rt, rnode, ltarget) ==
    LET lnode == g.ms.r2l[rnode]
        lparent == Parent(g.left, lnode)
        Move(pos) ==
            MarkInOrder(
              [Emit(g, MoveNode(getpath(g.left, lnode), getpath(g.left, ltarget),
                                pos))
                 EXCEPT !.left = TreeInsert(TreeRemove(@, lnode), ltarget, pos,
                                            lnode)],
              lnode, rnode)
        g1 == IF ltarget # lparent THEN Move(find_pos(g, rt, rnode)) ELSE g
    IN UpdateAttrOf(update_node_tag(g1, rt, lnode, rnode), rt, lnode, rnode)

\* A loop body that updates the texts before it aligns the children.
VisitNodeTextFirst(g, rt, rnode) ==
    LET rparent == Parent(rt, rnode)
        ltarget == IF rparent \in DOMAIN g.ms.r2l THEN g.ms.r2l[rparent] ELSE 0
        Align(g2) == align_children(g2, rt, g2.ms.r2l[rnode], rnode)
        Text(g1) == Align(update_node_text(g1, rt, g1.ms.r2l[rnode], rnode))
    IN Text(IF rnode \notin DOMAIN g.ms.r2l
              THEN InsertStep(g, rt, rnode, ltarget)
              ELSE MatchedStep(g, rt, rnode, ltarget))

\* The body of the loop over the right nodes (diff.py 405-470) for rnode.
VisitNode(g, rt, rnode) ==
    LET rparent == Parent(rt, rnode)
        ltarget == IF rparent \in DOMAIN g.ms.r2l THEN g.ms.r2l[rparent] ELSE 0
        Text(g2) == update_node_text(g2, rt, g2.ms.r2l[rnode], rnode)
        Align(g1) == Text(align_children(g1, rt, g1.ms.r2l[rnode], rnode))
    IN Align(IF rnode \notin DOMAIN g.ms.r2l
               THEN InsertStep(g, rt, rnode, ltarget)
               ELSE MatchedStep(g, rt, rnode, ltarget))

\* A second loop that yields no action.
DeleteNothing(g, lnode) == g

\* The body of the loop over the left nodes (diff.py 472-476) for lnode.
DeleteStep(g, lnode) ==
    IF lnode \notin DOMAIN g.ms.l2r
      THEN [Emit(g, DeleteNode(getpath(g.left, lnode)))
              EXCEPT !.left = TreeRemove(g.left, lnode)]
      ELSE g


\* ------------------------------------------------------- the Differ

VARIABLES
    lcsIn,        \* the arguments of a call of longest_common_subsequence
    lcsOut,       \* the list it returned (NoLcs: not called yet)
    fast_match,   \* Differ.fast_match
    uniqueattrs,  \* Differ.uniqueattrs
    left,         \* Differ.left: the copy of the left tree (NoTree: None)
    right,        \* Differ.right (NoTree: None)
    leftArg,      \* the left tree of the caller, as it is now (NoTree: none given)
    leftCopied,   \* Differ.left is an object of its own, not the caller's tree
    lefts,        \* the left copy as it was when each action of script was yielded
    matches,      \* Differ._matches, the list of <<lnode, rnode>>
    matchesId,    \* the identity of the list _matches (0: _matches is None)
    l2rmap,       \* Differ._l2rmap
    r2lmap,       \* Differ._r2lmap
    inorder,      \* Differ._inorder
    pc,           \* the generator of diff(): "idle", "bfs", "delete", "done"
    todo,         \* the nodes the running loop of diff() has yet to visit
    script,       \* the actions the generator of diff() has yielded
    call,         \* the last call on the Differ and its arguments
    raised,       \* the exception the last call raised ("none": it returned)
    ret,          \* what the last match() returned: the list and its identity
    calls,        \* the number of calls made on the Differ
    attrIn,       \* update_node_attr on its own: the two attribs it is given
    attrRes,      \* what it yielded and what it left in the left attrib
    ratioIn,      \* node_ratio on its own: uniqueattrs and the two nodes
    ratioOut,     \* the ratio it returned
    codecClass,   \* the class of the codec: "PlaceholderMaker" or "HTMLPlaceholderMaker"
    text_tags,    \* PlaceholderMaker.text_tags
    formatting_tags,         \* PlaceholderMaker.formatting_tags
    single_formatting_tags,  \* HTMLPlaceholderMaker.single_formatting_tags
    dual_formatting_tags,    \* HTMLPlaceholderMaker.dual_formatting_tags
    placeholder,      \* PlaceholderMaker.placeholder, the last codepoint assigned
    placeholder2tag,  \* PlaceholderMaker.placeholder2tag
    tag2placeholder,  \* PlaceholderMaker.tag2placeholder
    requests,     \* the calls of get_placeholder so far: key and codepoint returned
    codecCalls,   \* the number of calls made on the codec
    codecIn,      \* the tree handed to do_tree
    codecTree,    \* that tree as do_tree and undo_tree have left it
    codecPc,      \* "plain", "encoded" (do_tree done) or "decoded" (undo_tree done)
    ftree,        \* XMLFormatter.format: the copy of orig_tree the actions work on
    fAction,      \* the last action handed to handle_action
    fBefore,      \* the tree before that action
    fRaised,      \* the exception that action raised ("none": it returned)
    fFound,       \* the nodes its paths resolved to: [node, target], 0 for none
    fCalls,       \* the number of actions handled
    rLeft,        \* the left text element as prepare() has left it
    rRight,       \* the right text element as prepare() has left it
    rPc,          \* "idle", "prepared", "formatted", "finalized"
    rWords,       \* _diff_rich_text: diffWords, the list of <<op, word>>
    rStates,      \* _diff_rich_text: stateByIndex, the state of each token
    rOut,         \* _diff_rich_text: splitOutput
    rNode,        \* the node whose text _make_diff_tags has set
    rRaised       \* the exception the formatter raised ("none": none)

differVars == <<fast_match, uniqueattrs, left, right, leftArg, leftCopied,
                lefts, matches, matchesId, l2rmap, r2lmap, inorder, pc, todo, script,
                call, raised, ret, calls>>
attrVars == <<attrIn, attrRes>>
lcsVars == <<lcsIn, lcsOut>>
ratioVars == <<ratioIn, ratioOut>>
\* What a step of the Differ leaves alone.
codecVars == <<codecClass, text_tags, formatting_tags, single_formatting_tags,
               dual_formatting_tags, placeholder, placeholder2tag,
               tag2placeholder, requests, codecCalls, codecIn, codecTree,
               codecPc>>
formatterVars == <<ftree, fAction, fBefore, fRaised, fFound, fCalls>>
richVars == <<rLeft, rRight, rPc, rWords, rStates, rOut, rNode, rRaised>>
renderVars == <<formatterVars, richVars>>
notDifferVars == <<attrVars, ratioVars, codecVars, renderVars, lcsVars>>

\* A value that is neither None nor an element (object() in the tests).
NotElement == [NoTree EXCEPT !.root = -1]

\* etree.iselement
iselement(t) == t.root > 0
IsNone(t) == t.root = 0

NoCall == [op |-> "none", left |-> NoTree, right |-> NoTree]
NoRet == [id |-> 0, list |-> <<>>]

\* Differ.__init__, which ends in clear()
DifferInit(fast, ua) ==
    /\ fast_match = fast
    /\ uniqueattrs = ua
    /\ left = NoTree /\ right = NoTree
    /\ leftArg = NoTree /\ leftCopied = TRUE /\ lefts = <<>>
    /\ matches = <<>> /\ matchesId = 0
    /\ l2rmap = EmptyMap /\ r2lmap = EmptyMap /\ inorder = {}
    /\ pc = "idle" /\ todo = <<>> /\ script = <<>>
    /\ call = NoCall /\ raised = "none" /\ ret = NoRet /\ calls = 0

\* The Differ as a record, for the operators below.
Self == [left |-> left, right |-> right, leftArg |-> leftArg,
         copied |-> leftCopied, matches |-> matches,
         matchesId |-> matchesId, l2rmap |-> l2rmap, r2lmap |-> r2lmap,
         inorder |-> inorder, raised |-> "none", ret |-> NoRet]

\* Differ.clear
clear(d) ==
    [d EXCEPT !.left = NoTree, !.right = NoTree, !.matches = <<>>,
              !.matchesId = 0, !.l2rmap = EmptyMap, !.r2lmap = EmptyMap,
              !.inorder = {}]

\* set_trees without the deep copy: Differ.left is the tree of the caller.
set_trees_no_copy(d, l, r) ==
    IF ~(iselement(l) /\ iselement(r))
      THEN [clear(d) EXCEPT !.raised = "TypeError"]
      ELSE [clear(d) EXCEPT !.left = l, !.right = r, !.leftArg = l,
                            !.copied = FALSE]

\* Differ.set_trees; the deep copy of l is l with node identities of its own
set_trees(d, l, r) ==
    IF ~(iselement(l) /\ iselement(r))
      THEN [clear(d) EXCEPT !.raised = "TypeError"]
      ELSE [clear(d) EXCEPT !.left = l, !.right = r, !.leftArg = l,
                            !.copied = TRUE]

\* match without the test of the cache: it matches anew on every call.
match_no_cache(d, l, r, newId, ua, fast) ==
    LET Filled(d1, m) ==
            [d1 EXCEPT !.matches = m.matches, !.matchesId = newId,
                       !.l2rmap = m.l2r, !.r2lmap = m.r2l, !.inorder = {},
                       !.ret = [id |-> newId, list |-> m.matches]]
        Run(d1) ==
            IF d1.raised # "none" THEN d1
            ELSE IF IsNone(d1.left)
              THEN [d1 EXCEPT !.matches = <<>>, !.matchesId = newId,
                              !.l2rmap = EmptyMap, !.r2lmap = EmptyMap,
                              !.inorder = {}, !.raised = "AttributeError"]
            ELSE Filled(d1, ComputeMatch(d1.left, d1.right, ua, fast))
    IN Run(IF ~IsNone(l) \/ ~IsNone(r) THEN set_trees(d, l, r) ELSE d)

\* Differ.match; newId is the identity of a list created by this call
match(d, l, r, newId, ua, fast) ==
    LET Filled(d1, m) ==
            [d1 EXCEPT !.matches = m.matches, !.matchesId = newId,
                       !.l2rmap = m.l2r, !.r2lmap = m.r2l, !.inorder = {},
                       !.ret = [id |-> newId, list |-> m.matches]]
        Run(d1) ==
            IF d1.raised # "none" THEN d1
            ELSE IF d1.matchesId # 0
              THEN [d1 EXCEPT !.ret = [id |-> d1.matchesId, list |-> d1.matches]]
            ELSE IF IsNone(d1.left)
              \* post_order_traverse(None), the caches already initialised
              THEN [d1 EXCEPT !.matches = <<>>, !.matchesId = newId,
                              !.l2rmap = EmptyMap, !.r2lmap = EmptyMap,
                              !.inorder = {}, !.raised = "AttributeError"]
            ELSE Filled(d1, ComputeMatch(d1.left, d1.right, ua, fast))
    IN Run(IF ~IsNone(l) \/ ~IsNone(r) THEN set_trees(d, l, r) ELSE d)

\* The start of Differ.diff up to its first loop (diff.py 397-403).
diff_start(d, l, r, newId, ua, fast) ==
    LET Root(d1) ==
            IF d1.raised # "none" THEN d1
            ELSE IF IsNone(d1.left) THEN [d1 EXCEPT !.raised = "AttributeError"]
            ELSE d1
    IN Root(IF d.matchesId = 0 \/ d.matches = <<>>
              THEN match(d, l, r, newId, ua, fast) ELSE d)

Store(d) ==
    /\ left' = d.left /\ right' = d.right
    /\ leftArg' = d.leftArg /\ leftCopied' = d.copied
    /\ matches' = d.matches /\ matchesId' = d.matchesId
    /\ l2rmap' = d.l2rmap /\ r2lmap' = d.r2lmap /\ inorder' = d.inorder
    /\ raised' = d.raised

Callable(limit) == pc \in {"idle", "done"} /\ calls < limit

\* A call of set_trees(l, r)
SetTrees(l, r, limit) ==
    /\ Callable(limit)
    /\ Store(set_trees(Self, l, r))
    /\ call' = [op |-> "set_trees", left |-> l, right |-> r]
    /\ ret' = NoRet
    /\ calls' = calls + 1
    /\ pc' = "idle" /\ todo' = <<>>
    /\ UNCHANGED <<fast_match, uniqueattrs, script, lefts>>
    /\ UNCHANGED notDifferVars

\* A call of match(l, r); match() is match(NoTree, NoTree)
Match(l, r, limit) ==
    /\ Callable(limit)
    /\ LET Return(d) == Store(d) /\ ret' = d.ret
       IN Return(match(Self, l, r, calls + 1, uniqueattrs, fast_match))
    /\ call' = [op |-> "match", left |-> l, right |-> r]
    /\ calls' = calls + 1
    /\ pc' = "idle" /\ todo' = <<>>
    /\ UNCHANGED <<fast_match, uniqueattrs, script, lefts>>
    /\ UNCHANGED notDifferVars

\* A call of diff(l, r) and the first resumption of its generator, up to
\* the loop over the right nodes.
DiffStart(l, r, limit) ==
    /\ Callable(limit)
    /\ LET Started(d) ==
               /\ Store(d)
               /\ IF d.raised # "none"
                    THEN pc' = "done" /\ todo' = <<>>
                    ELSE /\ pc' = "bfs"
                         /\ todo' = breadth_first_traverse(d.right, d.right.root)
       IN Started(diff_start(Self, l, r, calls + 1, uniqueattrs, fast_match))
    /\ call' = [op |-> "diff", left |-> l, right |-> r]
    /\ ret' = NoRet
    /\ script' = <<>> /\ lefts' = <<>>
    /\ calls' = calls + 1
    /\ UNCHANGED <<fast_match, uniqueattrs>>
    /\ UNCHANGED notDifferVars

Gen == [left |-> left,
        ms |-> [l2r |-> l2rmap, r2l |-> r2lmap, matches |-> matches],
        inorder |-> inorder, out |-> <<>>, before |-> <<>>]

\* What the generator writes goes to the object Differ.left is.
StoreGen(g) ==
    /\ left' = g.left
    /\ leftArg' = IF leftCopied THEN leftArg ELSE g.left
    /\ matches' = g.ms.matches /\ l2rmap' = g.ms.l2r /\ r2lmap' = g.ms.r2l
    /\ inorder' = g.inorder
    /\ script' = script \o g.out
    /\ lefts' = lefts \o g.before

\* The generator runs the body of its first loop for the next right node.
DiffVisit ==
    /\ pc = "bfs" /\ todo # <<>>
    /\ LET Visited(g) ==
               /\ StoreGen(g)
               /\ IF Tail(todo) = <<>>
                    THEN /\ pc' = "delete"
                         /\ todo' = reverse_post_order_traverse(g.left, g.left.root)
                    ELSE /\ pc' = "bfs"
                         /\ todo' = Tail(todo)
       IN Visited(VisitNode(Gen, right, Head(todo)))
    /\ UNCHANGED <<fast_match, uniqueattrs, right, leftCopied, matchesId, call,
                   raised, ret, calls>>
    /\ UNCHANGED notDifferVars

\* The generator runs the body of its second loop for the next left node.
DiffDelete ==
    /\ pc = "delete" /\ todo # <<>>
    /\ StoreGen(DeleteStep(Gen, Head(todo)))
    /\ todo' = Tail(todo)
    /\ pc' = IF Tail(todo) = <<>> THEN "done" ELSE "delete"
    /\ UNCHANGED <<fast_match, uniqueattrs, right, leftCopied, matchesId, call,
                   raised, ret, calls>>
    /\ UNCHANGED notDifferVars

\* list(Differ(...).diff(l, r)) on a Differ of its own: the generator of
\* diff() drained, as the two loops of diff() run it.
RECURSIVE VisitAll(_, _, _)
VisitAll(g, rt, rnodes) ==
    IF rnodes = <<>> THEN g
    ELSE VisitAll(VisitNode(g, rt, Head(rnodes)), rt, Tail(rnodes))

RECURSIVE DeleteAll(_, _)
DeleteAll(g, lnodes) ==
    IF lnodes = <<>> THEN g
    ELSE DeleteAll(DeleteStep(g, Head(lnodes)), Tail(lnodes))

diff(l, r, ua, fast) ==
    LET g0 == [left |-> l, ms |-> ComputeMatch(l, r, ua, fast),
               inorder |-> {}, out |-> <<>>, before |-> <<>>]
        Deletes(g1) == DeleteAll(g1, reverse_post_order_traverse(g1.left, g1.left.root))
    IN Deletes(VisitAll(g0, r, breadth_first_traverse(r, r.root)))

\* ------------------------------------- update_node_attr on its own

AttrKeys == 1..MaxAttrKeys
AttrValues == {"u", "v"}

\* The attribs over the keys and values above.
Attribs ==
    UNION {{{<<k, f[k]>> : k \in ks} : f \in [ks -> AttrValues]} :
           ks \in SUBSET AttrKeys}

NoAttrRes == [done |-> FALSE, attrib |-> {}, out |-> <<>>]

AttrIdle == attrIn = [left |-> {}, right |-> {}] /\ attrRes = NoAttrRes

\* The path of the node whose attributes are updated.
AttrPath == <<<<"a", 1>>>>

\* A call of update_node_attr on a node with the left attrib.
UpdateNodeAttr ==
    /\ ~attrRes.done
    /\ LET u == update_node_attr(AttrPath, attrIn.left, attrIn.right)
       IN attrRes' = [done |-> TRUE, attrib |-> u.attrib, out |-> u.out]
    /\ UNCHANGED <<attrIn, differVars, ratioVars, codecVars, renderVars, lcsVars>>

\* ------------------------------------------- node_ratio on its own

\* The entries of uniqueattrs: [tag, attr], tag "" for the plain name form.
RatioKeys == {1, 2}
UniqueAttrs == [tag : {"", "a"}, attr : RatioKeys]

UniqueAttrLists ==
    UNION {[1..n -> UniqueAttrs] : n \in 1..MaxUniqueAttrs}

\* A node to compare: a root with or without one child.
RatioTree(tg, at, tx, withChild) ==
    MkTree(IF withChild THEN <<0, 1>> ELSE <<0>>,
           <<Label(tg, tx, <<>>, at), Label("a", <<"x">>, <<>>, {})>>)

RatioAttribs ==
    UNION {{{<<k, f[k]>> : k \in ks} : f \in [ks -> AttrValues]} :
           ks \in SUBSET RatioKeys}

\* Left nodes carry the text x and no child; right nodes the same (ratio 1
\* without unique attributes) or another text and a child (ratio below 1).
RatioLefts ==
    {RatioTree(tg, at, <<"x">>, FALSE) : tg \in Tags, at \in RatioAttribs}
RatioRights ==
    {RatioTree(tg, at, <<"x">>, FALSE) : tg \in Tags, at \in RatioAttribs}
    \cup {RatioTree(tg, at, <<"y">>, TRUE) : tg \in Tags, at \in RatioAttribs}

NoRatio == <<0, 0>>

RatioIdle ==
    /\ ratioIn = [ua |-> <<>>, left |-> NoTree, right |-> NoTree]
    /\ ratioOut = NoRatio

\* A call of node_ratio(left, right) before any match is recorded.
NodeRatio ==
    /\ ratioOut = NoRatio
    /\ ratioOut' = node_ratio(ratioIn.left, ratioIn.left.root,
                              ratioIn.right, ratioIn.right.root,
                              EmptyMap, ratioIn.ua)
    /\ UNCHANGED <<ratioIn, differVars, attrVars, codecVars, renderVars, lcsVars>>

\* A call of longest_common_subsequence(A, B, eqfn): the lengths of A and B
\* and, for eqfn, the matrix of its values on the items of A and B.
NoLcs == <<<<-1, -1>>>>
LcsIdle ==
    /\ lcsIn = [lslen |-> 0, rslen |-> 0, eq |-> <<>>]
    /\ lcsOut = NoLcs

LongestCommonSubsequence ==
    /\ lcsOut = NoLcs
    /\ lcsOut' = longest_common_subsequence(lcsIn.lslen, lcsIn.rslen, lcsIn.eq)
    /\ UNCHANGED <<lcsIn, differVars, attrVars, ratioVars, codecVars, renderVars>>


\* ------------------------------------------- the placeholder codec

\* An element of the codec is a value [tag, attrib, text, tail, kids], kids
\* the sequence of its child elements; a text is the sequence of its
\* characters, each a codepoint (<<>>: None or ""); an attrib is a set of
\* <<name, value>> pairs.
Element(tg, at, tx, tl, ks) ==
    [tag |-> tg, attrib |-> at, text |-> tx, tail |-> tl, kids |-> ks]

\* etree.Element(tag)
NewElement(tg) == Element(tg, {}, <<>>, <<>>, <<>>)

PLACEHOLDER_START == 57344
T_OPEN == 0
T_CLOSE == 1
T_SINGLE == 2
\* None as a close_ph
NoPh == 0

INSERT_NAME == "diff:insert"
DELETE_NAME == "diff:delete"

\* etree.canonicalize(element): the serialisation of the element with its
\* attributes sorted, its text and its descendants; the tail of the element
\* itself is not written.
canonicalize(element) == [element EXCEPT !.tail = <<>>]

\* The codec as a record, for the operators below.
Codec(ph, p2t, t2p, reqs) ==
    [placeholder |-> ph, placeholder2tag |-> p2t, tag2placeholder |-> t2p,
     requests |-> reqs]

PlaceholderEntry(element, ttype, close_ph) ==
    [element |-> element, ttype |-> ttype, close_ph |-> close_ph]

\* get_placeholder without the increment of the counter.
get_placeholder_no_increment(c, element, ttype, close_ph) ==
    LET tag == canonicalize(element)
        key == <<tag, ttype, close_ph>>
    IN IF key \in DOMAIN c.tag2placeholder
         THEN [codec |-> [c EXCEPT !.requests =
                             Append(@, [key |-> key,
                                        ph |-> c.tag2placeholder[key]])],
               ph |-> c.tag2placeholder[key]]
         ELSE LET ph == c.placeholder
                  copy == [element EXCEPT !.tail = <<>>, !.text = <<>>]
              IN [codec |->
                    Codec(ph,
                          MapSet(c.placeholder2tag, ph,
                                 PlaceholderEntry(copy, ttype, close_ph)),
                          MapSet(c.tag2placeholder, key, ph),
                          Append(c.requests, [key |-> key, ph |-> ph])),
                  ph |-> ph]

\* PlaceholderMaker.get_placeholder: [codec, ph]
get_placeholder(c, element, ttype, close_ph) ==
    LET tag == canonicalize(element)
        key == <<tag, ttype, close_ph>>
    IN IF key \in DOMAIN c.tag2placeholder
         THEN [codec |-> [c EXCEPT !.requests =
                             Append(@, [key |-> key,
                                        ph |-> c.tag2placeholder[key]])],
               ph |-> c.tag2placeholder[key]]
         ELSE LET ph == c.placeholder + 1
                  copy == [element EXCEPT !.tail = <<>>, !.text = <<>>]
              IN [codec |->
                    Codec(ph,
                          MapSet(c.placeholder2tag, ph,
                                 PlaceholderEntry(copy, ttype, close_ph)),
                          MapSet(c.tag2placeholder, key, ph),
                          Append(c.requests, [key |-> key, ph |-> ph])),
                  ph |-> ph]

\* The close and the open placeholder of an element: [codec, open, close],
\* open and close the strings put into the text.
ClosePlusOpen(c, element) ==
    LET ph_close == get_placeholder(c, element, T_CLOSE, NoPh)
        ph_open == get_placeholder(ph_close.codec, element, T_OPEN, ph_close.ph)
    IN [codec |-> ph_open.codec, open |-> <<ph_open.ph>>,
        close |-> <<ph_close.ph>>]

\* The codec configuration as a record: class, text_tags, formatting_tags
\* and the single and dual tags of the HTML class.
Config(class, text, formatting, single, dual) ==
    [class |-> class, text_tags |-> text, formatting_tags |-> formatting,
     single_formatting_tags |-> single, dual_formatting_tags |-> dual]

\* PlaceholderMaker.get_both_placeholders
get_both_placeholders(c, element) == ClosePlusOpen(c, element)

\* HTMLPlaceholderMaker.get_both_placeholders
HTML_get_both_placeholders(c, cfg, element) ==
    IF element.tag \in cfg.single_formatting_tags
      THEN LET ph_single == get_placeholder(c, element, T_SINGLE, NoPh)
           IN [codec |-> ph_single.codec, open |-> <<ph_single.ph>>,
               close |-> <<>>]
    ELSE IF element.tag \in Range(cfg.dual_formatting_tags)
      THEN ClosePlusOpen(c, NewElement(element.tag))
    ELSE ClosePlusOpen(c, element)

\* self.get_both_placeholders(element), by the class of self
BothPlaceholders(c, cfg, element) ==
    IF cfg.class = "HTMLPlaceholderMaker"
      THEN HTML_get_both_placeholders(c, cfg, element)
      ELSE get_both_placeholders(c, element)

\* PlaceholderMaker.is_formatting
is_formatting(cfg, element) == element.tag \in cfg.formatting_tags

\* The name of the attribute get_modified_ph sets for an action.
DiffAttribute(action) ==
    CASE action = "insert" -> "diff:insert"
      [] action = "delete" -> "diff:delete"
      [] action = "insert-formatting" -> "diff:insert-formatting"
      [] OTHER -> "diff:delete-formatting"

\* PlaceholderMaker.get_modified_ph, ph a key of placeholder2tag: [codec, ph]
get_modified_ph(c, ph, action) ==
    LET entry == c.placeholder2tag[ph]
        elem == [entry.element EXCEPT
                    !.attrib = SetKey(@, DiffAttribute(action), "")]
        ph_single == get_placeholder(c, elem, T_SINGLE, NoPh)
        ph_close == get_placeholder(c, elem, T_CLOSE, NoPh)
        ph_open == get_placeholder(ph_close.codec, elem, T_OPEN, ph_close.ph)
    IN IF entry.ttype = T_SINGLE THEN ph_single
       ELSE IF entry.ttype = T_CLOSE THEN ph_close
       ELSE ph_open

\* PlaceholderMaker.do_element: [codec, element].  The loop over the
\* children keeps the text of the element, the children left in place so
\* far (the last of them is previous_child) and the children yet to visit.
RECURSIVE do_element(_, _, _)
RECURSIVE DoLoop(_, _, _, _, _)
DoLoop(c, cfg, text, kept, rest) ==
    IF rest = <<>> THEN [codec |-> c, text |-> text, kids |-> kept]
    ELSE LET child == Head(rest)
         IN IF is_formatting(cfg, child)
              THEN LET d == do_element(c, cfg, child)
                       ph == BothPlaceholders(d.codec, cfg, d.element)
                       added == ph.open \o d.element.text \o ph.close
                                   \o d.element.tail
                   IN IF kept # <<>>
                        THEN DoLoop(ph.codec, cfg, text,
                                    [kept EXCEPT ![Len(kept)].tail = @ \o added],
                                    Tail(rest))
                        ELSE DoLoop(ph.codec, cfg, text \o added, kept,
                                    Tail(rest))
              ELSE DoLoop(c, cfg, text, Append(kept, child), Tail(rest))

do_element(c, cfg, element) ==
    LET r == DoLoop(c, cfg, element.text, <<>>, element.kids)
    IN [codec |-> r.codec,
        element |-> [element EXCEPT !.text = r.text, !.kids = r.kids]]

\* The loop of do_tree over reversed(tree.xpath(...)): the text-tag elements
\* in reverse document order, that is the children of an element from the
\* last to the first, each with its descendants, and then the element.
RECURSIVE DoTreeAt(_, _, _)
RECURSIVE DoTreeKids(_, _, _, _)
DoTreeKids(c, cfg, kids, i) ==
    IF i = 0 THEN [codec |-> c, kids |-> kids]
    ELSE LET d == DoTreeAt(c, cfg, kids[i])
         IN DoTreeKids(d.codec, cfg, [kids EXCEPT ![i] = d.element], i - 1)

DoTreeAt(c, cfg, element) ==
    LET k == DoTreeKids(c, cfg, element.kids, Len(element.kids))
        e == [element EXCEPT !.kids = k.kids]
    IN IF element.tag \in cfg.text_tags
         THEN do_element(k.codec, cfg, e)
         ELSE [codec |-> k.codec, element |-> e]

\* PlaceholderMaker.do_tree
do_tree(c, cfg, tree) ==
    IF cfg.text_tags # {} THEN DoTreeAt(c, cfg, tree)
    ELSE [codec |-> c, element |-> tree]

\* PlaceholderMaker.is_placeholder on one character
is_placeholder(p2t, char) == char \in DOMAIN p2t

\* The length of the segment of plain text that segments starts with.
RECURSIVE PlainRun(_, _)
PlainRun(p2t, segments) ==
    IF segments = <<>> \/ is_placeholder(p2t, Head(segments)) THEN 0
    ELSE 1 + PlainRun(p2t, Tail(segments))

\* The inner loop of undo_string: the index from i on of the close
\* placeholder that ends the element opened by seg (0: the segments run
\* out, segments.pop(0) raises IndexError).
RECURSIVE CloseAt(_, _, _, _, _)
CloseAt(segments, i, seg, close_ph, nested) ==
    IF i > Len(segments) THEN 0
    ELSE IF segments[i] = close_ph /\ nested = 0 THEN i
    ELSE CloseAt(segments, i + 1, seg, close_ph,
                 IF segments[i] = seg THEN nested + 1
                 ELSE IF segments[i] = close_ph THEN nested - 1
                 ELSE nested)

\* PlaceholderMaker.undo_string: [text, kids, raised], the text and the
\* children of the element "wrap" it returns.
\* PlaceholderMaker.undo_element: [elems, raised], the element followed by
\* the siblings it inserted after itself in its parent.
RECURSIVE undo_element(_, _)
RECURSIVE UndoEach(_, _)
RECURSIVE UndoLoop(_, _, _, _)
UndoLoop(p2t, segments, text, kids) ==
    IF segments = <<>> THEN [text |-> text, kids |-> kids, raised |-> FALSE]
    ELSE LET seg == Head(segments)
         IN IF is_placeholder(p2t, seg)
              THEN LET entry == p2t[seg]
                       k == CloseAt(segments, 2, seg, entry.close_ph, 0)
                       element == [entry.element EXCEPT
                                      !.text = SubSeq(segments, 2, k - 1)]
                       u == undo_element(p2t, element)
                   IN IF entry.ttype = T_OPEN
                        THEN IF k = 0 \/ u.raised
                               THEN [text |-> text, kids |-> kids,
                                     raised |-> TRUE]
                               ELSE UndoLoop(p2t,
                                             SubSeq(segments, k + 1, Len(segments)),
                                             text, kids \o u.elems)
                      ELSE IF entry.ttype = T_SINGLE
                        THEN UndoLoop(p2t, Tail(segments), text,
                                      Append(kids, entry.element))
                      ELSE UndoLoop(p2t, Tail(segments), text, kids)
            ELSE LET n == PlainRun(p2t, segments)
                     plain == SubSeq(segments, 1, n)
                     rest == SubSeq(segments, n + 1, Len(segments))
                 IN IF kids # <<>>
                      THEN UndoLoop(p2t, rest, text,
                                    [kids EXCEPT ![Len(kids)].tail =
                                        IF @ # <<>> THEN @ ELSE plain])
                      ELSE UndoLoop(p2t, rest,
                                    IF text # <<>> THEN text ELSE plain, kids)

undo_string(p2t, text) == UndoLoop(p2t, text, <<>>, <<>>)

\* undo_element on each element of a sequence, the results in a row
UndoEach(p2t, elems) ==
    IF elems = <<>> THEN [elems |-> <<>>, raised |-> FALSE]
    ELSE LET u == undo_element(p2t, Head(elems))
             v == UndoEach(p2t, Tail(elems))
         IN [elems |-> u.elems \o v.elems, raised |-> u.raised \/ v.raised]

undo_element(p2t, elem) ==
    IF DOMAIN p2t = {} THEN [elems |-> <<elem>>, raised |-> FALSE]
    ELSE LET content == undo_string(p2t, elem.text)
             replaced == elem.text # <<>> /\ elem.text # content.text
             fromText == IF replaced THEN UndoEach(p2t, content.kids)
                         ELSE [elems |-> <<>>, raised |-> FALSE]
             e1 == IF replaced
                     THEN [elem EXCEPT !.text = content.text,
                                       !.kids = fromText.elems \o @]
                     ELSE elem
             children == UndoEach(p2t, e1.kids)
             e2 == [e1 EXCEPT !.kids = children.elems]
             after == undo_string(p2t, elem.tail)
             replacedTail == elem.tail # <<>> /\ elem.tail # after.text
             fromTail == IF replacedTail THEN UndoEach(p2t, after.kids)
                         ELSE [elems |-> <<>>, raised |-> FALSE]
             e3 == IF replacedTail THEN [e2 EXCEPT !.tail = after.text] ELSE e2
         IN [elems |-> <<e3>> \o fromTail.elems,
             raised |-> \/ (elem.text # <<>> /\ content.raised)
                        \/ fromText.raised \/ children.raised
                        \/ (elem.tail # <<>> /\ after.raised)
                        \/ fromTail.raised]

\* PlaceholderMaker.undo_tree
undo_tree(p2t, tree) == undo_element(p2t, tree)

\* The codec a constructor leaves: PlaceholderMaker.__init__ and, for the
\* HTML class, the loop of HTMLPlaceholderMaker.__init__ over the dual tags.
RECURSIVE InitDualTags(_, _, _)
InitDualTags(c, cfg, tags) ==
    IF tags = <<>> THEN c
    ELSE InitDualTags(
             HTML_get_both_placeholders(c, cfg, NewElement(Head(tags))).codec,
             cfg, Tail(tags))

NewCodec(cfg) ==
    LET c0 == Codec(PLACEHOLDER_START, EmptyMap, EmptyMap, <<>>)
        insert == ClosePlusOpen(c0, NewElement(INSERT_NAME))
        delete == ClosePlusOpen(insert.codec, NewElement(DELETE_NAME))
    IN IF cfg.class = "HTMLPlaceholderMaker"
         THEN InitDualTags(delete.codec, cfg, cfg.dual_formatting_tags)
         ELSE delete.codec

SelfCodec == Codec(placeholder, placeholder2tag, tag2placeholder, requests)
SelfConfig == Config(codecClass, text_tags, formatting_tags,
                     single_formatting_tags, dual_formatting_tags)

StoreCodec(c) ==
    /\ placeholder' = c.placeholder
    /\ placeholder2tag' = c.placeholder2tag
    /\ tag2placeholder' = c.tag2placeholder
    /\ requests' = c.requests

configVars == <<codecClass, text_tags, formatting_tags,
                single_formatting_tags, dual_formatting_tags>>

\* A codec of configuration cfg just constructed, and the tree to encode.
CodecInit(cfg, tree) ==
    /\ codecClass = cfg.class
    /\ text_tags = cfg.text_tags
    /\ formatting_tags = cfg.formatting_tags
    /\ single_formatting_tags = cfg.single_formatting_tags
    /\ dual_formatting_tags = cfg.dual_formatting_tags
    /\ LET c == NewCodec(cfg)
       IN /\ placeholder = c.placeholder
          /\ placeholder2tag = c.placeholder2tag
          /\ tag2placeholder = c.tag2placeholder
          /\ requests = c.requests
    /\ codecCalls = 0
    /\ codecIn = tree /\ codecTree = tree /\ codecPc = "plain"

\* The configurations: PlaceholderMaker(["p"], ["b", "a", "br"]), the same
\* with the text tags p and q, and HTMLPlaceholderMaker(["br"], ["b"],
\* ["a"], ["p"]).
CodecConfigs ==
    { Config("PlaceholderMaker", {"p"}, {"b", "a", "br"}, {}, <<>>),
      Config("PlaceholderMaker", {"p", "q"}, {"b", "a", "br"}, {}, <<>>),
      Config("HTMLPlaceholderMaker", {"p"}, {"br", "b", "a"}, {"br"}, <<"b">>) }

CodecIdle == CodecInit(Config("PlaceholderMaker", {}, {}, {}, <<>>),
                       NewElement("p"))

\* The labels of the nodes below the root: formatting elements with and
\* without attributes, an empty one and one that is no formatting element.
CodecLabels ==
    { Label("b", <<120>>, <<121>>, {}),
      Label("b", <<120>>, <<>>, {<<"class", "k">>}),
      Label("a", <<121>>, <<120>>, {<<"href", "u">>}),
      Label("br", <<>>, <<121>>, {}),
      Label("q", <<120>>, <<121>>, {}) }

RECURSIVE ToElement(_, _)
ToElement(t, n) ==
    Element(t.tag[n], t.attrib[n], t.text[n], t.tail[n],
            [i \in 1..Len(t.kids[n]) |-> ToElement(t, t.kids[n][i])])

\* The trees to encode: a text element p over up to MaxCodecNodes - 1 nodes.
CodecTrees ==
    UNION {{ToElement(MkTree(sh, <<Label("p", <<120>>, <<>>, {})>> \o rest), 1) :
               sh \in Shapes(n), rest \in [1..(n - 1) -> CodecLabels]} :
           n \in 1..MaxCodecNodes}

\* A call of do_tree on the tree.
DoTree ==
    /\ codecPc = "plain"
    /\ LET d == do_tree(SelfCodec, SelfConfig, codecTree)
       IN StoreCodec(d.codec) /\ codecTree' = d.element
    /\ codecPc' = "encoded"
    /\ UNCHANGED <<configVars, codecCalls, codecIn>>
    /\ UNCHANGED <<differVars, attrVars, ratioVars, renderVars, lcsVars>>

\* A call of undo_tree on the encoded tree.
UndoTree ==
    /\ codecPc = "encoded"
    /\ LET u == undo_tree(placeholder2tag, codecTree)
       IN /\ codecTree' = u.elems[1]
          /\ codecPc' = IF u.raised THEN "IndexError" ELSE "decoded"
    /\ UNCHANGED <<configVars, placeholder, placeholder2tag, tag2placeholder,
                   requests, codecCalls, codecIn>>
    /\ UNCHANGED <<differVars, attrVars, ratioVars, renderVars, lcsVars>>

\* The elements handed to the allocation calls.
AllocElements ==
    { NewElement("b"),
      Element("b", {<<"class", "k">>}, <<120>>, <<121>>, <<>>),
      Element("b", {<<"class", "k">>}, <<120>>, <<>>, <<>>),
      NewElement("br") }

AllocStep(r) ==
    /\ codecCalls < MaxCodecCalls
    /\ StoreCodec(r.codec)
    /\ codecCalls' = codecCalls + 1
    /\ UNCHANGED <<configVars, codecIn, codecTree, codecPc>>
    /\ UNCHANGED <<differVars, attrVars, ratioVars, renderVars, lcsVars>>

\* A call of get_placeholder(element, ttype, close_ph)
GetPlaceholder(element, ttype, close_ph) ==
    AllocStep(get_placeholder(SelfCodec, element, ttype, close_ph))

\* A call of get_both_placeholders(element)
GetBothPlaceholders(element) ==
    AllocStep(BothPlaceholders(SelfCodec, SelfConfig, element))

\* A call of get_modified_ph(ph, action)
GetModifiedPh(ph, action) ==
    AllocStep(get_modified_ph(SelfCodec, ph, action))

\* ------------------------------------------------ the XML formatter

MOVE_NAME == "diff:move"
RENAME_NAME == "diff:rename"

\* A test of the marker that never finds it.
IsDeletedNever(t, n) == FALSE

\* "self.placeholderer.DELETE_NAME in node.attrib"
IsDeleted(t, n) == HasKey(t.attrib[n], DELETE_NAME)

\* node.xpath(path) for one step: "/name" selects the root element if it is
\* named name, "name" the children of node named name, in document order.
XPathStep(t, node, name, root) ==
    IF root THEN IF t.tag[t.root] = name THEN <<t.root>> ELSE <<>>
    ELSE SelectSeq(t.kids[node], LAMBDA c : t.tag[c] = name)

\* A resolution that takes the first match of a step written without [k].
RECURSIVE XPathFirstMatch(_, _, _, _)
XPathFirstMatch(t, node, xpath, root) ==
    LET index == IF Head(xpath)[2] = 0 THEN 0 ELSE Head(xpath)[2] - 1
        Pick(found) ==
            IF index >= Len(found) THEN 0
            ELSE IF Tail(xpath) # <<>>
              THEN XPathFirstMatch(t, found[index + 1], Tail(xpath), FALSE)
            ELSE found[index + 1]
    IN Pick(SelectSeq(XPathStep(t, node, Head(xpath)[1], root),
                      LAMBDA m : ~IsDeleted(t, m)))

\* XMLFormatter._xpath on a path of steps <<name, k>>, k = 0 for a step
\* written without [k] and k >= 1 for name[k]: the node found, 0 for
\* ValueError.  root tells that the path still starts with "/".
RECURSIVE _xpath(_, _, _, _)
_xpath(t, node, xpath, root) ==
    LET path == Head(xpath)[1]
        index == IF Head(xpath)[2] = 0 THEN 0 ELSE Head(xpath)[2] - 1
        multiple == Head(xpath)[2] = 0
        Pick(found) ==
            IF index >= Len(found) THEN 0
            ELSE IF Len(found) > 1 /\ multiple THEN 0
            ELSE IF Tail(xpath) # <<>>
              THEN _xpath(t, found[index + 1], Tail(xpath), FALSE)
            ELSE found[index + 1]
    IN Pick(SelectSeq(XPathStep(t, node, path, root),
                      LAMBDA m : ~IsDeleted(t, m)))

\* A deletion that takes the node out of its parent.
RemoveNode(t, node) ==
    IF Parent(t, node) = 0 THEN t ELSE TreeRemove(t, node)

\* XMLFormatter._delete_node
_delete_node(t, node) ==
    [t EXCEPT !.attrib[node] = SetKey(@, DELETE_NAME, "")]

\* The loop of _get_real_insert_position over the children, pos and offset
\* as counted so far: the offset it ends with.
RECURSIVE RealPositionLoop(_, _, _, _, _)
RealPositionLoop(t, children, position, pos, offset) ==
    IF children = <<>> THEN offset
    ELSE LET Counted(p, o) ==
                 IF p > position THEN o
                 ELSE RealPositionLoop(t, Tail(children), position, p, o)
         IN IF IsDeleted(t, Head(children))
              THEN Counted(pos, offset + 1)
              ELSE Counted(pos + 1, offset)

\* The position of the action taken as the index in the children.
PositionAsGiven(t, target, position) == position

\* XMLFormatter._get_real_insert_position
_get_real_insert_position(t, target, position) ==
    position + RealPositionLoop(t, t.kids[target], position, 0, 0)

\* An insertion after the last child, whatever the position.
InsertNodeLast(t, target, node, position) ==
    [t EXCEPT !.attrib[node] = SetKey(@, INSERT_NAME, ""),
              !.kids[target] = Append(@, node)]

\* XMLFormatter._insert_node for a node that has no parent
_insert_node(t, target, node, position) ==
    [t EXCEPT !.attrib[node] = SetKey(@, INSERT_NAME, ""),
              !.kids[target] = InsertAt(@, position, node)]

\* copy.deepcopy(node): the subtree is copied into new nodes of the tree
\* record, the copy of node without a parent; lxml copies the tail of node
\* with it.  [tree, node] and, for a list of nodes, [tree, ids].
RECURSIVE deepcopy(_, _)
RECURSIVE CopyEach(_, _)
deepcopy(t, n) ==
    LET Made(r) ==
            [tree |-> [r.tree EXCEPT !.tag = Append(@, t.tag[n]),
                                     !.text = Append(@, t.text[n]),
                                     !.tail = Append(@, t.tail[n]),
                                     !.attrib = Append(@, t.attrib[n]),
                                     !.kids = Append(@, r.ids)],
             node |-> Len(r.tree.tag) + 1]
    IN Made(CopyEach(t, t.kids[n]))

CopyEach(t, ns) ==
    IF ns = <<>> THEN [tree |-> t, ids |-> <<>>]
    ELSE LET More(first, r) == [tree |-> r.tree, ids |-> <<first.node>> \o r.ids]
             Rest(first) == More(first, CopyEach(first.tree, Tail(ns)))
         IN Rest(deepcopy(t, Head(ns)))

\* What a handler leaves: the tree, the exception raised and the nodes the
\* paths of the action resolved to.
Handled(t, node, target) ==
    [tree |-> t, raised |-> "none", node |-> node, target |-> target]
NotFound(t, node) ==
    [tree |-> t, raised |-> "ValueError", node |-> node, target |-> 0]

\* XMLFormatter._handle_DeleteNode
_handle_DeleteNode(action, t) ==
    LET Found(node) ==
            IF node = 0 THEN NotFound(t, 0)
            ELSE Handled(_delete_node(t, node), node, 0)
    IN Found(_xpath(t, t.root, action.node, TRUE))

\* XMLFormatter._handle_InsertNode
_handle_InsertNode(action, t) ==
    LET new_node == Len(t.tag) + 1
        Found(target) ==
            IF target = 0 THEN NotFound(t, 0)
            ELSE Handled(_insert_node(TreeMakeElement(t, action.tag), target,
                                      new_node,
                                      _get_real_insert_position(t, target,
                                                                action.position)),
                         0, target)
    IN Found(_xpath(t, t.root, action.target, TRUE))

\* XMLFormatter._handle_MoveNode
_handle_MoveNode(action, t) ==
    LET Marked(node, inserted, t3) ==
            [t3 EXCEPT !.attrib[inserted] = SetKey(@, MOVE_NAME, ""),
                       !.attrib[node] = SetKey(@, MOVE_NAME, "")]
        Deleted(node, inserted, target, t2) ==
            Marked(node, inserted,
                   _insert_node(t2, target, inserted,
                                _get_real_insert_position(t2, target,
                                                          action.position)))
        Target(node, copy, target) ==
            IF target = 0 THEN NotFound(t, node)
            ELSE Handled(Deleted(node, copy.node, target,
                                 _delete_node(copy.tree, node)),
                         node, target)
        Copied(node, copy) ==
            Target(node, copy, _xpath(copy.tree, copy.tree.root, action.target, TRUE))
        Found(node) ==
            IF node = 0 THEN NotFound(t, 0) ELSE Copied(node, deepcopy(t, node))
    IN Found(_xpath(t, t.root, action.node, TRUE))

\* XMLFormatter._handle_RenameNode
_handle_RenameNode(action, t) ==
    LET Found(node) ==
            IF node = 0 THEN NotFound(t, 0)
            ELSE Handled([t EXCEPT !.attrib[node] = SetKey(@, RENAME_NAME, t.tag[node]),
                                   !.tag[node] = action.tag],
                         node, 0)
    IN Found(_xpath(t, t.root, action.node, TRUE))

\* "INSERT_NAME in node.attrib and MOVE_NAME not in node.attrib"
InsertedNotMoved(t, n) ==
    HasKey(t.attrib[n], INSERT_NAME) /\ ~HasKey(t.attrib[n], MOVE_NAME)

\* The text _make_diff_tags writes for the two values, kept as the old words,
\* a mark and the new words: no element of the tree comes or goes with it.
MarkedText(left_value, right_value) == left_value \o <<"diff">> \o right_value

\* XMLFormatter._handle_UpdateTextIn
_handle_UpdateTextIn(action, t) ==
    LET Found(node) ==
            IF node = 0 THEN NotFound(t, 0)
            ELSE IF InsertedNotMoved(t, node)
              THEN Handled([t EXCEPT !.text[node] = action.text], node, 0)
            ELSE Handled([t EXCEPT !.text[node] = MarkedText(@, action.text)],
                         node, 0)
    IN Found(_xpath(t, t.root, action.node, TRUE))

\* XMLFormatter._handle_UpdateTextAfter; the root has no parent to look at.
_handle_UpdateTextAfter(action, t) ==
    LET Found(node) ==
            IF node = 0 THEN NotFound(t, 0)
            ELSE IF Parent(t, node) = 0
              THEN [tree |-> [t EXCEPT !.tail[node] = <<>>],
                    raised |-> "AttributeError", node |-> node, target |-> 0]
            ELSE IF InsertedNotMoved(t, Parent(t, node))
              THEN Handled([t EXCEPT !.tail[node] = action.text], node, 0)
            ELSE Handled([t EXCEPT !.tail[node] = MarkedText(@, action.text)],
                         node, 0)
    IN Found(_xpath(t, t.root, action.node, TRUE))

\* XMLFormatter.handle_action
handle_action(action, t) ==
    CASE action.op = "DeleteNode" -> _handle_DeleteNode(action, t)
      [] action.op = "InsertNode" -> _handle_InsertNode(action, t)
      [] action.op = "MoveNode" -> _handle_MoveNode(action, t)
      [] action.op = "RenameNode" -> _handle_RenameNode(action, t)
      [] action.op = "UpdateTextIn" -> _handle_UpdateTextIn(action, t)
      [] action.op = "UpdateTextAfter" -> _handle_UpdateTextAfter(action, t)

NoAction == [op |-> "none"]
NoFound == [node |-> 0, target |-> 0]

\* No formatter at work.
FormatterIdle ==
    /\ ftree = NoTree /\ fBefore = NoTree /\ fAction = NoAction
    /\ fRaised = "none" /\ fFound = NoFound /\ fCalls = 0

\* One pass of the loop of XMLFormatter.format: handle_action(action, root).
\* An exception ends format().
HandleAction(action, limit) ==
    /\ ftree # NoTree /\ fRaised = "none" /\ fCalls < limit
    /\ LET Done(h) ==
               /\ ftree' = h.tree
               /\ fRaised' = h.raised
               /\ fFound' = [node |-> h.node, target |-> h.target]
       IN Done(handle_action(action, ftree))
    /\ fAction' = action
    /\ fBefore' = ftree
    /\ fCalls' = fCalls + 1
    /\ UNCHANGED <<differVars, attrVars, ratioVars, codecVars, richVars, lcsVars>>

\* The action is built anew on each pass.
HandleDeleteNode(node, limit) ==
    /\ HandleAction(DeleteNode(node), limit)
HandleInsertNode(target, tag, position, limit) ==
    /\ HandleAction(InsertNode(target, tag, position), limit)
HandleMoveNode(node, target, position, limit) ==
    /\ HandleAction(MoveNode(node, target, position), limit)
HandleRenameNode(node, tag, limit) ==
    /\ HandleAction(RenameNode(node, tag), limit)

\* ------------------------------------------- the rich-text diff

\* A text is the sequence of its characters: a letter is a word of its
\* own, SPACE a blank, a key of placeholder2tag a placeholder.  A token is
\* a sequence of characters.
SPACE == 32
SplitChars == {59, 33, 63}

\* utils.splitString: the loop over the characters, word the characters
\* since stringStart.
RECURSIVE SplitLoop(_, _, _, _)
SplitLoop(text, listCharsSplit, word, output) ==
    LET Flushed == IF word # <<>> THEN Append(output, word) ELSE output
    IN IF text = <<>> THEN Flushed
       ELSE IF Head(text) \in listCharsSplit
         THEN SplitLoop(Tail(text), listCharsSplit, <<>>,
                        Append(Flushed, <<Head(text)>>))
       ELSE IF Head(text) = SPACE
         THEN SplitLoop(Tail(text), listCharsSplit, <<>>, Flushed)
       ELSE SplitLoop(Tail(text), listCharsSplit, Append(word, Head(text)),
                      output)

splitString(text, placeholderList) ==
    SplitLoop(text, SplitChars \cup placeholderList, <<>>, <<>>)

\* PlaceholderMaker.is_placeholder on a token
IsPlaceholderToken(p2t, token) == Len(token) = 1 /\ token[1] \in DOMAIN p2t

\* XMLFormatter._get_content_and_states: [result, stateByIndex, raised].
\* stateByIndex maps the 0-based index of a token of result to the nesting
\* level of every open placeholder seen so far.
RECURSIVE ContentLoop(_, _, _, _, _, _)
ContentLoop(p2t, contentArray, result, stateByIndex, currentState, open_close_map) ==
    IF contentArray = <<>>
      THEN [result |-> result, stateByIndex |-> stateByIndex, raised |-> "none"]
    ELSE LET char == Head(contentArray)[1]
             Opened(state) ==
                 ContentLoop(p2t, Tail(contentArray), result,
                             MapSet(stateByIndex, Len(result), state), state,
                             MapSet(MapSet(open_close_map, char,
                                           p2t[char].close_ph),
                                    p2t[char].close_ph, char))
             Closed(state) ==
                 ContentLoop(p2t, Tail(contentArray), result,
                             MapSet(stateByIndex, Len(result), state), state,
                             open_close_map)
         IN IF ~IsPlaceholderToken(p2t, Head(contentArray))
              THEN ContentLoop(p2t, Tail(contentArray),
                               Append(result, Head(contentArray)),
                               stateByIndex, currentState, open_close_map)
            ELSE IF p2t[char].ttype = T_SINGLE
              THEN ContentLoop(p2t, Tail(contentArray),
                               Append(result, Head(contentArray)),
                               stateByIndex, currentState, open_close_map)
            ELSE IF p2t[char].ttype = T_OPEN
              THEN Opened(MapSet(currentState, char,
                                 (IF char \in DOMAIN currentState
                                    THEN currentState[char] ELSE 0) + 1))
            ELSE IF char \notin DOMAIN open_close_map
              THEN [result |-> result, stateByIndex |-> stateByIndex,
                    raised |-> "KeyError"]
            ELSE Closed([currentState EXCEPT ![open_close_map[char]] = @ - 1])

_get_content_and_states(p2t, contentArray) ==
    ContentLoop(p2t, contentArray, <<>>, EmptyMap, EmptyMap, EmptyMap)

\* XMLFormatter._update_state
_update_state(currentState, stateByIndex, index) ==
    IF index \notin DOMAIN stateByIndex THEN currentState
    ELSE {key \in DOMAIN stateByIndex[index] : stateByIndex[index][key] > 0}

\* The order in which a set of placeholders is iterated: Python leaves it
\* open; order picks the ascending or the descending one.
IterationOrder(S, order) == IF order = "asc" THEN Sorted(S) ELSE Reverse(Sorted(S))

\* The value of diff:change-target: oldHref + " -> " + newHref
ChangeTarget(oldHref, newHref) ==
    IF oldHref = "u" THEN (IF newHref = "u" THEN "u -> u" ELSE "u -> v")
    ELSE (IF newHref = "u" THEN "v -> u" ELSE "v -> v")

\* No pairing of links: the three sets as they are given.
MergeNoLinks(c, cfg, commonPlaceholders, insertedPlaceholders, deletedPlaceholders, order) ==
    [codec |-> c, common |-> commonPlaceholders,
     inserted |-> insertedPlaceholders, deleted |-> deletedPlaceholders,
     raised |-> "none"]

\* XMLFormatter._merge_link_placeholders: [codec, common, inserted, deleted,
\* raised], the three sets as the method leaves them.
_merge_link_placeholders(c, cfg, commonPlaceholders, insertedPlaceholders, deletedPlaceholders, order) ==
    LET _is_link_element(ph) == c.placeholder2tag[ph].element.tag = "a"
        Left(exc, cd, common, inserted, deleted) ==
            [codec |-> cd, common |-> common, inserted |-> inserted,
             deleted |-> deleted, raised |-> exc]
        Changed(both, insertedLinkPH, removedLinkPH) ==
            Left("none", both.codec,
                 commonPlaceholders \cup {both.open[1]},
                 insertedPlaceholders \ {insertedLinkPH},
                 deletedPlaceholders \ {removedLinkPH})
        Paired(insertedLinkPH, removedLinkPH, oldAttrib, newAttrib) ==
            IF ~HasKey(oldAttrib, "href") \/ ~HasKey(newAttrib, "href")
              THEN Left("KeyError", c, commonPlaceholders,
                        insertedPlaceholders \ {insertedLinkPH},
                        deletedPlaceholders \ {removedLinkPH})
            ELSE IF Get(oldAttrib, "href") = Get(newAttrib, "href")
              THEN Left("none", c, commonPlaceholders \cup {removedLinkPH},
                        insertedPlaceholders \ {insertedLinkPH},
                        deletedPlaceholders \ {removedLinkPH})
            ELSE Changed(BothPlaceholders(c, cfg,
                             Element("a",
                                     {<<"diff:change-target",
                                        ChangeTarget(Get(oldAttrib, "href"),
                                                     Get(newAttrib, "href"))>>},
                                     <<>>, <<>>, <<>>)),
                         insertedLinkPH, removedLinkPH)
        Links(insertedLinks, removedLinks) ==
            IF insertedLinks = <<>> \/ removedLinks = <<>>
              THEN Left("none", c, commonPlaceholders, insertedPlaceholders,
                        deletedPlaceholders)
            ELSE Paired(insertedLinks[Len(insertedLinks)],
                        removedLinks[Len(removedLinks)],
                        c.placeholder2tag[removedLinks[Len(removedLinks)]]
                            .element.attrib,
                        c.placeholder2tag[insertedLinks[Len(insertedLinks)]]
                            .element.attrib)
    IN Links(SelectSeq(IterationOrder(insertedPlaceholders, order),
                       _is_link_element),
             SelectSeq(IterationOrder(deletedPlaceholders, order),
                       _is_link_element))

\* map(lambda ph: get_modified_ph(ph, action), placeholders): [codec, phs]
RECURSIVE ModifiedEach(_, _, _, _)
ModifiedEach(c, placeholders, action, done) ==
    IF placeholders = <<>> THEN [codec |-> c, phs |-> done]
    ELSE LET Next1(m) ==
                 ModifiedEach(m.codec, Tail(placeholders), action,
                              done \cup {m.ph})
         IN Next1(get_modified_ph(c, Head(placeholders), action))

\* XMLFormatter._merge_states: [codec, state, raised]
_merge_states(c, cfg, leftState, rightState, order) ==
    LET Deleted(merged, ins, del) ==
            [codec |-> del.codec, raised |-> "none",
             state |-> merged.common \cup ins.phs \cup del.phs]
        Inserted(merged, ins) ==
            Deleted(merged, ins,
                    ModifiedEach(ins.codec,
                                 IterationOrder(merged.deleted, order),
                                 "delete-formatting", {}))
        Merged(merged) ==
            IF merged.raised # "none"
              THEN [codec |-> merged.codec, raised |-> merged.raised,
                    state |-> merged.common]
            ELSE Inserted(merged,
                          ModifiedEach(merged.codec,
                                       IterationOrder(merged.inserted, order),
                                       "insert-formatting", {}))
    IN Merged(_merge_link_placeholders(c, cfg, leftState \cap rightState,
                                       rightState \ leftState,
                                       leftState \ rightState, order))

\* utils.diff_wordsToChars: the tokens of the two lists numbered in the
\* order met, the second list first; wordsArray[1] is the empty token.
\* [chars1, chars2, wordsArray], a char the 0-based index in wordsArray.
RECURSIVE diff_wordsToCharsMunge(_, _, _)
diff_wordsToCharsMunge(tokens, wordsArray, chars) ==
    IF tokens = <<>> THEN [chars |-> chars, wordsArray |-> wordsArray]
    ELSE IF \E i \in 2..Len(wordsArray) : wordsArray[i] = Head(tokens)
      THEN diff_wordsToCharsMunge(
               Tail(tokens), wordsArray,
               Append(chars, (CHOOSE i \in 2..Len(wordsArray) :
                                 wordsArray[i] = Head(tokens)) - 1))
    ELSE diff_wordsToCharsMunge(Tail(tokens), Append(wordsArray, Head(tokens)),
                                Append(chars, Len(wordsArray)))

diff_wordsToChars(tokenList1, tokenList2) ==
    LET First(m2) ==
            LET Second(m1) ==
                    [chars1 |-> m1.chars, chars2 |-> m2.chars,
                     wordsArray |-> m1.wordsArray]
            IN Second(diff_wordsToCharsMunge(tokenList1, m2.wordsArray, <<>>))
    IN First(diff_wordsToCharsMunge(tokenList2, <<<<>>>>, <<>>))

\* diff_match_patch.diff_main on texts one of which starts with the other,
\* or which share no character after their common prefix: the common
\* prefix as an equality, then the rest of the first as a deletion, the
\* rest of the second as an insertion.
RECURSIVE CommonPrefix(_, _)
CommonPrefix(text1, text2) ==
    IF text1 = <<>> \/ text2 = <<>> \/ Head(text1) # Head(text2) THEN 0
    ELSE 1 + CommonPrefix(Tail(text1), Tail(text2))

diff_main(text1, text2) ==
    LET Cut(n) ==
            (IF n > 0 THEN <<<<0, SubSeq(text1, 1, n)>>>> ELSE <<>>)
            \o (IF n < Len(text1)
                  THEN <<<<-1, SubSeq(text1, n + 1, Len(text1))>>>> ELSE <<>>)
            \o (IF n < Len(text2)
                  THEN <<<<1, SubSeq(text2, n + 1, Len(text2))>>>> ELSE <<>>)
    IN Cut(CommonPrefix(text1, text2))

\* utils.diff_charsToWords
diff_charsToWords(diffs, lineArray) ==
    Flatten([i \in 1..Len(diffs) |->
                [j \in 1..Len(diffs[i][2]) |->
                    <<diffs[i][1], lineArray[diffs[i][2][j] + 1]>>]])

\* self.placeholderer.diff_tags["insert"][0] and ["delete"][0]
DiffTagOpen(c, name) ==
    c.tag2placeholder[<<NewElement(name), T_OPEN,
                        c.tag2placeholder[<<NewElement(name), T_CLOSE, NoPh>>]>>]

\* The first loop of _diff_rich_text: the state of each token of diffWords.
\* [codec, states, raised]
RECURSIVE StateLoop(_, _, _, _, _, _, _, _, _, _, _)
StateLoop(c, cfg, diffWords, leftStateByIndex, rightStateByIndex, leftIndex, rightIndex, currentLeftState, currentRightState, stateByIndex, order) ==
    IF diffWords = <<>>
      THEN [codec |-> c, states |-> stateByIndex, raised |-> "none"]
    ELSE LET Equal(ls, rs) ==
                 LET Common(m) ==
                         IF m.raised # "none"
                           THEN [codec |-> m.codec, states |-> stateByIndex,
                                 raised |-> m.raised]
                         ELSE StateLoop(m.codec, cfg, Tail(diffWords),
                                        leftStateByIndex, rightStateByIndex,
                                        leftIndex + 1, rightIndex + 1, ls, rs,
                                        Append(stateByIndex, m.state), order)
                 IN Common(_merge_states(c, cfg, ls, rs, order))
             Insertion(rs) ==
                 StateLoop(c, cfg, Tail(diffWords), leftStateByIndex,
                           rightStateByIndex, leftIndex, rightIndex + 1,
                           currentLeftState, rs,
                           Append(stateByIndex,
                                  rs \cup {DiffTagOpen(c, INSERT_NAME)}),
                           order)
             Deletion(ls) ==
                 StateLoop(c, cfg, Tail(diffWords), leftStateByIndex,
                           rightStateByIndex, leftIndex + 1, rightIndex,
                           ls, currentRightState,
                           Append(stateByIndex,
                                  ls \cup {DiffTagOpen(c, DELETE_NAME)}),
                           order)
         IN IF Head(diffWords)[1] = 0
              THEN Equal(_update_state(currentLeftState, leftStateByIndex,
                                       leftIndex),
                         _update_state(currentRightState, rightStateByIndex,
                                       rightIndex))
            ELSE IF Head(diffWords)[1] = 1
              THEN Insertion(_update_state(currentRightState,
                                           rightStateByIndex, rightIndex))
            ELSE Deletion(_update_state(currentLeftState, leftStateByIndex,
                                        leftIndex))

\* A closing loop that forgets what it closed only to reach a placeholder
\* below it.
RECURSIVE CloseNoReopen(_, _, _, _, _)
CloseNoReopen(p2t, closedPH, currentOpenedPH, splitOutput, phToReopen) ==
    IF closedPH = {}
      THEN [opened |-> currentOpenedPH, out |-> splitOutput,
            reopen |-> {}, raised |-> "none"]
    ELSE IF currentOpenedPH = <<>>
      THEN [opened |-> currentOpenedPH, out |-> splitOutput,
            reopen |-> {}, raised |-> "IndexError"]
    ELSE CloseNoReopen(p2t, closedPH \ {currentOpenedPH[Len(currentOpenedPH)]},
                       SubSeq(currentOpenedPH, 1, Len(currentOpenedPH) - 1),
                       Append(splitOutput,
                              <<p2t[currentOpenedPH[Len(currentOpenedPH)]].close_ph>>),
                       phToReopen)

\* The inner loop of the second loop: "while closedPH".  [opened, out,
\* reopen, raised]; a pop from the empty list raises IndexError.
RECURSIVE CloseLoop(_, _, _, _, _)
CloseLoop(p2t, closedPH, currentOpenedPH, splitOutput, phToReopen) ==
    IF closedPH = {}
      THEN [opened |-> currentOpenedPH, out |-> splitOutput,
            reopen |-> phToReopen, raised |-> "none"]
    ELSE IF currentOpenedPH = <<>>
      THEN [opened |-> currentOpenedPH, out |-> splitOutput,
            reopen |-> phToReopen, raised |-> "IndexError"]
    ELSE LET Popped(last_ph_opened, rest) ==
                 IF last_ph_opened \in closedPH
                   THEN CloseLoop(p2t, closedPH \ {last_ph_opened}, rest,
                                  Append(splitOutput,
                                         <<p2t[last_ph_opened].close_ph>>),
                                  phToReopen)
                   ELSE CloseLoop(p2t, closedPH, rest,
                                  Append(splitOutput,
                                         <<p2t[last_ph_opened].close_ph>>),
                                  phToReopen \cup {last_ph_opened})
         IN Popped(currentOpenedPH[Len(currentOpenedPH)],
                   SubSeq(currentOpenedPH, 1, Len(currentOpenedPH) - 1))

\* sorted(openedPH | phToReopen, reverse=True)
OpenOrder(placeholders) == Reverse(Sorted(placeholders))

\* The second loop of _diff_rich_text and the loop that closes what is
\* still open: [out, raised], out the list splitOutput.
RECURSIVE OutputLoop(_, _, _, _, _, _, _)
OutputLoop(p2t, stateByIndex, diffWords, i, oldState, currentOpenedPH, splitOutput) ==
    IF i > Len(stateByIndex)
      THEN [out |-> splitOutput
                      \o [k \in 1..Len(currentOpenedPH) |->
                             <<p2t[Reverse(currentOpenedPH)[k]].close_ph>>],
            raised |-> "none"]
    ELSE LET Reopened(cl, opens) ==
                 OutputLoop(p2t, stateByIndex, diffWords, i + 1,
                            stateByIndex[i], cl.opened \o opens,
                            (cl.out \o [k \in 1..Len(opens) |-> <<opens[k]>>])
                              \o <<diffWords[i][2]>>)
             Closed(cl) ==
                 IF cl.raised # "none"
                   THEN [out |-> cl.out, raised |-> cl.raised]
                 ELSE Reopened(cl, OpenOrder((stateByIndex[i] \ oldState)
                                             \cup cl.reopen))
         IN Closed(CloseLoop(p2t, oldState \ stateByIndex[i], currentOpenedPH,
                             splitOutput, {}))

\* XMLFormatter._insert_spacing
RECURSIVE SpacingLoop(_, _, _, _)
SpacingLoop(p2t, tokenList, pendingSpace, output) ==
    IF tokenList = <<>> THEN output
    ELSE IF IsPlaceholderToken(p2t, Head(tokenList))
      THEN IF pendingSpace /\ p2t[Head(tokenList)[1]].ttype = T_OPEN
             THEN SpacingLoop(p2t, Tail(tokenList), FALSE,
                              output \o <<<<SPACE>>, Head(tokenList)>>)
             ELSE SpacingLoop(p2t, Tail(tokenList), pendingSpace,
                              Append(output, Head(tokenList)))
    ELSE SpacingLoop(p2t, Tail(tokenList), TRUE,
                     IF pendingSpace
                       THEN output \o <<<<SPACE>>, Head(tokenList)>>
                       ELSE Append(output, Head(tokenList)))

_insert_spacing(p2t, tokenList) == SpacingLoop(p2t, tokenList, FALSE, <<>>)

\* XMLFormatter._diff_rich_text: [codec, words, states, out, text, raised],
\* text the string returned.
_diff_rich_text(c, cfg, leftValueArray, rightValueArray, order) ==
    LET Failed(cd, words, states, out, exc) ==
            [codec |-> cd, words |-> words, states |-> states, out |-> out,
             text |-> <<>>, raised |-> exc]
        Written(st, words, o) ==
            IF o.raised # "none"
              THEN Failed(st.codec, words, st.states, o.out, o.raised)
            ELSE [codec |-> st.codec, words |-> words, states |-> st.states,
                  out |-> o.out, raised |-> "none",
                  text |-> Flatten(_insert_spacing(st.codec.placeholder2tag,
                                                   o.out))]
        Stated(st, words) ==
            IF st.raised # "none"
              THEN Failed(st.codec, words, st.states, <<>>, st.raised)
            ELSE Written(st, words,
                         OutputLoop(st.codec.placeholder2tag, st.states, words,
                                    1, {}, <<>>, <<>>))
        Diffed(l, r, words) ==
            Stated(StateLoop(c, cfg, words, l.stateByIndex, r.stateByIndex,
                             0, 0, {}, {}, <<>>, order),
                   words)
        Munged(l, r, w) ==
            Diffed(l, r, diff_charsToWords(diff_main(w.chars1, w.chars2),
                                           w.wordsArray))
        Content(l, r) ==
            IF l.raised # "none" THEN Failed(c, <<>>, <<>>, <<>>, l.raised)
            ELSE IF r.raised # "none" THEN Failed(c, <<>>, <<>>, <<>>, r.raised)
            ELSE Munged(l, r, diff_wordsToChars(l.result, r.result))
    IN Content(_get_content_and_states(c.placeholder2tag, leftValueArray),
               _get_content_and_states(c.placeholder2tag, rightValueArray))

\* XMLFormatter._make_diff_tags with normalize = WS_NONE: the result of
\* _diff_rich_text on the two split values.
_make_diff_tags(c, cfg, left_value, right_value, order) ==
    _diff_rich_text(c, cfg,
                    splitString(left_value, DOMAIN c.placeholder2tag),
                    splitString(right_value, DOMAIN c.placeholder2tag),
                    order)

RichIdle ==
    /\ rLeft = NewElement("p") /\ rRight = NewElement("p") /\ rPc = "idle"
    /\ rWords = <<>> /\ rStates = <<>> /\ rOut = <<>>
    /\ rNode = NewElement("p") /\ rRaised = "none"

RenderIdle == FormatterIdle /\ RichIdle

\* formatter.placeholderer.do_tree on the left and then on the right tree,
\* as XMLFormatter.prepare does.
Prepare(left_tree, right_tree) ==
    /\ rPc = "idle"
    /\ LET Right(l, r) ==
               /\ StoreCodec(r.codec)
               /\ rLeft' = l.element /\ rRight' = r.element
               /\ rNode' = l.element
           Left(l) == Right(l, do_tree(l.codec, SelfConfig, right_tree))
       IN Left(do_tree(SelfCodec, SelfConfig, left_tree))
    /\ rPc' = "prepared"
    /\ UNCHANGED <<rWords, rStates, rOut, rRaised>>
    /\ UNCHANGED <<configVars, codecCalls, codecIn, codecTree, codecPc>>
    /\ UNCHANGED <<differVars, attrVars, ratioVars, formatterVars, lcsVars>>

\* _make_diff_tags(left text, right text, node) on the left text element,
\* as _handle_UpdateTextIn calls it; order is the iteration order of sets.
MakeDiffTags(order) ==
    /\ rPc = "prepared"
    /\ LET Made(d) ==
               /\ StoreCodec(d.codec)
               /\ rWords' = d.words /\ rStates' = d.states /\ rOut' = d.out
               /\ rNode' = [rNode EXCEPT !.text = d.text]
               /\ rRaised' = d.raised
       IN Made(_make_diff_tags(SelfCodec, SelfConfig, rLeft.text, rRight.text,
                               order))
    /\ rPc' = "formatted"
    /\ UNCHANGED <<rLeft, rRight>>
    /\ UNCHANGED <<configVars, codecCalls, codecIn, codecTree, codecPc>>
    /\ UNCHANGED <<differVars, attrVars, ratioVars, formatterVars, lcsVars>>

\* XMLFormatter.finalize: undo_tree on the result.
Finalize ==
    /\ rPc = "formatted" /\ rRaised = "none"
    /\ LET Undone(u) ==
               /\ rNode' = u.elems[1]
               /\ rRaised' = IF u.raised THEN "IndexError" ELSE "none"
       IN Undone(undo_tree(placeholder2tag, rNode))
    /\ rPc' = "finalized"
    /\ UNCHANGED <<rLeft, rRight, rWords, rStates, rOut>>
    /\ UNCHANGED codecVars
    /\ UNCHANGED <<differVars, attrVars, ratioVars, formatterVars, lcsVars>>

\* ------------------------------------------------- specifications

vars == <<differVars, attrVars, ratioVars, codecVars, renderVars, lcsVars>>

\* The trees of the diff runs.
DiffTrees == TreesUpTo(MaxNodes, DiffLabels)

\* One run of diff(L, R) on a fresh Differ.
Init ==
    /\ LcsIdle
    /\ \E fast \in BOOLEAN : DifferInit(fast, <<>>)
    /\ AttrIdle /\ RatioIdle /\ CodecIdle /\ RenderIdle

Next ==
    \/ \E l \in DiffTrees, r \in DiffTrees : DiffStart(l, r, 1)
    \/ DiffVisit
    \/ DiffDelete

Spec == Init /\ [][Next]_vars

\* One run of diff(L, R) on a fresh Differ, R being L with one subtree put
\* somewhere else: the nodes of R carry the numbers of their counterparts.
MoveLabels ==
    { Label("a", <<"x">>, <<>>, {}),
      Label("b", <<"y">>, <<"z">>, {}) }
MoveTrees == TreesUpTo(MaxMoveNodes, MoveLabels)

Relocate(t, n, p, pos) ==
    LET Put(t2) == [t2 EXCEPT !.kids[p] = InsertAt(@, pos, n)]
    IN Put(TreeRemove(t, n))

Relocations(t) ==
    {Relocate(t, n, p, pos) :
        n \in Nodes(t) \ {t.root},
        p \in Nodes(t),
        pos \in 0..(MaxMoveNodes - 2)} \ {t}

InitMove == Init

NextMove ==
    \/ \E l \in MoveTrees :
          \E r \in {x \in Relocations(l) : Len(post_order_traverse(x, x.root))
                                             = Len(l.tag)} :
              DiffStart(l, r, 1)
    \/ DiffVisit
    \/ DiffDelete

SpecMove == InitMove /\ [][NextMove]_vars

\* One run of diff(L, R) on a fresh Differ without the fast match, L of up
\* to MaxPosLeft nodes and R of up to MaxMoveNodes nodes: a right tree has
\* room for a node to insert next to a node that is to move.
PosLefts == TreesUpTo(MaxPosLeft, MoveLabels)

InitPos ==
    /\ LcsIdle
    /\ DifferInit(FALSE, <<>>)
    /\ AttrIdle /\ RatioIdle /\ CodecIdle /\ RenderIdle

NextPos ==
    \/ \E l \in PosLefts, r \in MoveTrees : DiffStart(l, r, 1)
    \/ DiffVisit
    \/ DiffDelete

SpecPos == InitPos /\ [][NextPos]_vars

\* One call of match(L, R) on a fresh Differ without the fast match, the
\* texts of two nodes equal or sharing one word of two (leaf ratio 1/2), L of
\* up to MaxRefineLeft nodes and R of MaxRefineRight nodes.
RefineLabels ==
    { Label("a", <<"x">>, <<>>, {}),
      Label("a", <<"x", "y">>, <<>>, {}) }
RefineLefts == TreesUpTo(MaxRefineLeft, RefineLabels)
RefineRights == TreesOf(MaxRefineRight, RefineLabels)

InitRefine == InitPos

NextRefine == \E l \in RefineLefts, r \in RefineRights : Match(l, r, 1)

SpecRefine == InitRefine /\ [][NextRefine]_vars

\* longest_common_subsequence on any two sequences of up to MaxLcsLeft and
\* MaxLcsRight items under any predicate on their items.
LcsInputs ==
    UNION {[lslen : {m}, rslen : {n}, eq : [1..m -> [1..n -> BOOLEAN]]] :
             m \in 0..MaxLcsLeft, n \in 0..MaxLcsRight}

InitLcs ==
    /\ DifferInit(FALSE, <<>>)
    /\ AttrIdle /\ RatioIdle /\ CodecIdle /\ RenderIdle
    /\ lcsIn \in LcsInputs
    /\ lcsOut = NoLcs

NextLcs == LongestCommonSubsequence

SpecLcs == InitLcs /\ [][NextLcs]_vars

\* diff_trees(L, R, formatter=XMLFormatter()) up to finalize: format() copies
\* L, then asks the generator of diff(L, R) for one action after the other
\* and handles each before it asks for the next.
PipeLefts == TreesUpTo(MaxPosLeft, MoveLabels)

InitPipe ==
    /\ LcsIdle
    /\ DifferInit(FALSE, <<>>) /\ AttrIdle /\ RatioIdle /\ CodecIdle
    /\ ftree \in PipeLefts
    /\ fBefore = NoTree /\ fAction = NoAction
    /\ fRaised = "none" /\ fFound = NoFound /\ fCalls = 0
    /\ RichIdle

\* The generator runs up to its next yield when format() asks for an action
\* and has none left.
Resumable == fRaised = "none" /\ fCalls = Len(script)

PipeStart(r) ==
    /\ DiffStart(ftree, r, 1)
PipeVisit ==
    /\ Resumable
    /\ DiffVisit
PipeDelete ==
    /\ Resumable
    /\ DiffDelete
PipeHandle ==
    /\ fCalls < Len(script)
    /\ HandleAction(script[fCalls + 1], MaxPipeCalls)

NextPipe ==
    \/ \E r \in MoveTrees : PipeStart(r)
    \/ PipeVisit
    \/ PipeDelete
    \/ PipeHandle

SpecPipe == InitPipe /\ [][NextPipe]_vars

\* One run of diff(T, T) on a fresh Differ.
SameTrees == TreesUpTo(MaxSameNodes, SameLabels)

InitSame == Init

NextSame ==
    \/ \E t \in SameTrees : DiffStart(t, t, 1)
    \/ DiffVisit
    \/ DiffDelete

SpecSame == InitSame /\ [][NextSame]_vars

\* Up to MaxCalls calls of set_trees, match and diff on one Differ, each
\* generator of diff() drained before the next call.
ApiTrees ==
    {MkTree(<<0>>, <<Label("a", <<"x">>, <<>>, {})>>),
     MkTree(<<0, 1>>, <<Label("a", <<"x">>, <<>>, {}),
                        Label("b", <<"y">>, <<>>, {})>>),
     MkTree(<<0, 1>>, <<Label("b", <<"y">>, <<>>, {<<1, "u">>}),
                        Label("b", <<"y">>, <<>>, {})>>)}
ApiArgs == ApiTrees \cup {NoTree, NotElement}

InitApi == Init

NextApi ==
    \/ \E l \in ApiArgs, r \in ApiArgs : SetTrees(l, r, MaxCalls)
    \/ \E l \in ApiArgs, r \in ApiArgs : Match(l, r, MaxCalls)
    \/ \E l \in ApiArgs, r \in ApiArgs : DiffStart(l, r, MaxCalls)
    \/ DiffVisit
    \/ DiffDelete

SpecApi == InitApi /\ [][NextApi]_vars

\* update_node_attr on any two attribs.
InitAttr ==
    /\ LcsIdle
    /\ DifferInit(FALSE, <<>>) /\ RatioIdle /\ CodecIdle /\ RenderIdle
    /\ attrIn \in [left : Attribs, right : Attribs]
    /\ attrRes = NoAttrRes

NextAttr == UpdateNodeAttr

SpecAttr == InitAttr /\ [][NextAttr]_vars

\* node_ratio on any two nodes under any uniqueattrs list.
InitRatio ==
    /\ LcsIdle
    /\ DifferInit(FALSE, <<>>) /\ AttrIdle /\ CodecIdle /\ RenderIdle
    /\ ratioIn \in [ua : UniqueAttrLists, left : RatioLefts, right : RatioRights]
    /\ ratioOut = NoRatio

NextRatio == NodeRatio

SpecRatio == InitRatio /\ [][NextRatio]_vars

\* do_tree and then undo_tree on any tree, under each configuration.
InitCodec ==
    /\ LcsIdle
    /\ DifferInit(FALSE, <<>>) /\ AttrIdle /\ RatioIdle /\ RenderIdle
    /\ \E cfg \in CodecConfigs, tree \in CodecTrees : CodecInit(cfg, tree)

NextCodec == DoTree \/ UndoTree

SpecCodec == InitCodec /\ [][NextCodec]_vars

\* Up to MaxCodecCalls allocation calls on one codec.
InitAlloc ==
    /\ LcsIdle
    /\ DifferInit(FALSE, <<>>) /\ AttrIdle /\ RatioIdle /\ RenderIdle
    /\ \E cfg \in CodecConfigs : CodecInit(cfg, NewElement("p"))

NextAlloc ==
    \/ \E element \in AllocElements, ttype \in {T_OPEN, T_CLOSE, T_SINGLE},
          close_ph \in {NoPh, placeholder} :
            GetPlaceholder(element, ttype, close_ph)
    \/ \E element \in AllocElements : GetBothPlaceholders(element)
    \/ \E ph \in DOMAIN placeholder2tag, action \in {"insert", "delete-formatting"} :
            GetModifiedPh(ph, action)

SpecAlloc == InitAlloc /\ [][NextAlloc]_vars

\* The trees handed to XMLFormatter.format: the root is an a.
FmtLabels == { Label("a", <<"x">>, <<>>, {}), Label("b", <<>>, <<"z">>, {}) }
FmtTrees == {t \in TreesUpTo(MaxFmtNodes, FmtLabels) : t.tag[t.root] = "a"}

\* The tree after DeleteNode actions on the nodes of D.
MarkDeleted(t, D) ==
    [t EXCEPT !.attrib = [n \in Nodes(t) |->
                             IF n \in D THEN SetKey(t.attrib[n], DELETE_NAME, "")
                             ELSE t.attrib[n]]]

\* The paths of the actions: steps name or name[k], up to three steps.
FmtRootSteps == {<<"a", 0>>, <<"a", 1>>, <<"b", 1>>}
FmtSteps == Tags \X (0..MaxIndex)
FmtPaths ==
    {<<r>> : r \in FmtRootSteps}
    \cup {<<r, c>> : r \in FmtRootSteps, c \in FmtSteps}
    \cup {<<<<"a", 1>>, <<m, 1>>, <<n, 1>>>> : m \in Tags, n \in Tags}
\* The target paths of MoveNode: the document, its children, a wrong root.
FmtTargets ==
    {<<<<"a", 1>>>>, <<<<"b", 1>>>>} \cup {<<<<"a", 1>>, c>> : c \in FmtSteps}
FmtPositions == 0..MaxIndex

\* One action of any kind on a tree some of whose nodes earlier DeleteNode
\* actions have marked.
InitFmt ==
    /\ LcsIdle
    /\ DifferInit(FALSE, <<>>) /\ AttrIdle /\ RatioIdle /\ CodecIdle
    /\ \E t \in FmtTrees, D \in SUBSET (2..MaxFmtNodes) :
          D \subseteq Nodes(t) /\ ftree = MarkDeleted(t, D)
    /\ fBefore = NoTree /\ fAction = NoAction
    /\ fRaised = "none" /\ fFound = NoFound /\ fCalls = 0
    /\ RichIdle

NextFmt ==
    \/ \E node \in FmtPaths : HandleDeleteNode(node, 1)
    \/ \E target \in FmtPaths, tag \in Tags, position \in FmtPositions :
          HandleInsertNode(target, tag, position, 1)
    \/ \E node \in FmtPaths, target \in FmtTargets, position \in FmtPositions :
          HandleMoveNode(node, target, position, 1)
    \/ \E node \in FmtPaths, tag \in Tags : HandleRenameNode(node, tag, 1)

SpecFmt == InitFmt /\ [][NextFmt]_vars

\* A script of up to MaxFmtCalls actions whose paths carry [k] on every step,
\* on a document of three children.
SeqTrees ==
    {MkTree(<<0, 1, 1, 1>>, <<Label("a", <<>>, <<>>, {}), Label("b", <<"x">>, <<>>, {}),
                              Label("b", <<"y">>, <<>>, {}), Label("a", <<>>, <<>>, {})>>),
     MkTree(<<0, 1, 2, 1>>, <<Label("a", <<>>, <<>>, {}), Label("b", <<"x">>, <<>>, {}),
                              Label("b", <<"y">>, <<>>, {}), Label("b", <<>>, <<>>, {})>>)}
SeqPaths ==
    {<<<<"a", 1>>>>}
    \cup {<<<<"a", 1>>, <<n, k>>>> : n \in Tags, k \in 1..MaxIndex}
    \cup {<<<<"a", 1>>, <<"b", k>>, <<"b", 1>>>> : k \in 1..MaxIndex}

InitSeq ==
    /\ LcsIdle
    /\ DifferInit(FALSE, <<>>) /\ AttrIdle /\ RatioIdle /\ CodecIdle
    /\ ftree \in SeqTrees
    /\ fBefore = NoTree /\ fAction = NoAction
    /\ fRaised = "none" /\ fFound = NoFound /\ fCalls = 0
    /\ RichIdle

NextSeq ==
    \/ \E node \in SeqPaths : HandleDeleteNode(node, MaxFmtCalls)
    \/ \E target \in SeqPaths, tag \in Tags, position \in FmtPositions :
          HandleInsertNode(target, tag, position, MaxFmtCalls)
    \/ \E node \in SeqPaths, target \in SeqPaths, position \in FmtPositions :
          HandleMoveNode(node, target, position, MaxFmtCalls)
    \/ \E node \in SeqPaths, tag \in Tags : HandleRenameNode(node, tag, MaxFmtCalls)

SpecSeq == InitSeq /\ [][NextSeq]_vars


\* The HTML formatter on two text elements p of up to MaxRichNodes nodes:
\* links and bold elements around the word x, side by side or nested.
RichConfig == Config("HTMLPlaceholderMaker", {"p"}, {"br", "b", "a"}, {"br"}, <<"b">>)
RichLabels ==
    { Label("b", <<120>>, <<>>, {}),
      Label("b", <<>>, <<>>, {}),
      Label("a", <<120>>, <<>>, {<<"href", "u">>}),
      Label("a", <<120>>, <<>>, {<<"href", "v">>}),
      Label("a", <<>>, <<>>, {<<"href", "u">>}) }
RichTexts ==
    UNION {{ToElement(MkTree(sh, <<Label("p", <<>>, <<>>, {})>> \o rest), 1) :
               sh \in Shapes(n), rest \in [1..(n - 1) -> RichLabels]} :
           n \in 1..MaxRichNodes}

InitRich ==
    /\ LcsIdle
    /\ DifferInit(FALSE, <<>>) /\ AttrIdle /\ RatioIdle
    /\ CodecInit(RichConfig, NewElement("p"))
    /\ RenderIdle

NextRich ==
    \/ \E l \in RichTexts, r \in RichTexts : Prepare(l, r)
    \/ \E order \in {"asc", "desc"} : MakeDiffTags(order)
    \/ Finalize

SpecRich == InitRich /\ [][NextRich]_vars

\* ------------------------------------------------------- properties

HasAction(op) == \E i \in 1..Len(script) : script[i].op = op

\* C1: once the generator returned by diff(L, R) is drained, the Differ's
\* copy of L is structurally equal to R: the same tag, attributes, text and
\* tail on every node and the same children in the same order.
C1_LeftEqualsRight ==
    (pc = "done" /\ call.op = "diff" /\ raised = "none")
        => TreeEq(left, call.right)

\* A drained run that inserted, moved and deleted nodes to get there.
C1_Witness ==
    /\ pc = "done" /\ call.op = "diff" /\ raised = "none"
    /\ ~TreeEq(call.left, call.right)
    /\ TreeEq(left, call.right)
    /\ HasAction("InsertNode") /\ HasAction("MoveNode") /\ HasAction("DeleteNode")

\* C2: diff(T, T) emits no action at all, with or without fast_match.
C2_SameTreeNoAction == script = <<>>

\* L2R(x) = y exactly when R2L(y) = x.
MapsInverse ==
    /\ \A x \in DOMAIN l2rmap :
          l2rmap[x] \in DOMAIN r2lmap /\ r2lmap[l2rmap[x]] = x
    /\ \A y \in DOMAIN r2lmap :
          r2lmap[y] \in DOMAIN l2rmap /\ l2rmap[r2lmap[y]] = y

\* No left and no right node occurs in two pairs of the list.
PairsOnce ==
    \A i \in 1..Len(matches), j \in 1..Len(matches) :
        i # j => matches[i][1] # matches[j][1] /\ matches[i][2] # matches[j][2]

\* The list of matches holds exactly the pairs of the maps.
ListIsMaps == Range(matches) = {<<x, l2rmap[x]>> : x \in DOMAIN l2rmap}

RootsPaired == left.root \in DOMAIN l2rmap /\ l2rmap[left.root] = right.root

C4_RoundTrip ==
    codecPc \notin {"plain", "encoded"} =>
        codecPc = "decoded" /\ codecTree = codecIn

\* C5: diff(left, right) with explicit trees yields the script of those two
\* trees, the one a fresh Differ yields, whatever the Differ did before.
C5_ScriptOfArguments ==
    (pc = "done" /\ call.op = "diff"
       /\ iselement(call.left) /\ iselement(call.right))
        => /\ raised = "none"
           /\ script = diff(call.left, call.right, uniqueattrs, fast_match).out

\* Exactly one argument is None, or one is no element.
BadArguments(l, r) ==
    \/ IsNone(l) # IsNone(r)
    \/ l = NotElement
    \/ r = NotElement

\* C6: set_trees, match and diff raise TypeError and emit no action when
\* exactly one argument is None or an argument is not an element, in every
\* state of the Differ, fresh or after earlier runs.
C6_TypeError ==
    (call.op \in {"set_trees", "match", "diff"}
       /\ BadArguments(call.left, call.right))
        => /\ raised = "TypeError"
           /\ call.op = "diff" => script = <<>>

NoArguments(c) == IsNone(c.left) /\ IsNone(c.right)

\* The step leaves no matches, no maps and no in-order set.
CacheDiscarded ==
    /\ matchesId' = 0 /\ matches' = <<>>
    /\ l2rmap' = EmptyMap /\ r2lmap' = EmptyMap /\ inorder' = {}

\* The step returns a list created by this call.
NewList ==
    /\ matchesId' > matchesId /\ matchesId' > ret.id
    /\ ret' = [id |-> matchesId', list |-> matches']
    /\ inorder' = {}

\* C7: match() without arguments after a completed match returns the very
\* list cached, nothing recomputed; set_trees, and match with explicit
\* trees, discard the cached matches, maps and in-order set, and the next
\* match computes a new list.
C7_MatchCache ==
    [][calls' = calls + 1 =>
         /\ (call'.op = "match" /\ NoArguments(call') /\ matchesId # 0)
               => /\ ret' = [id |-> matchesId, list |-> matches]
                  /\ UNCHANGED <<matchesId, matches, l2rmap, r2lmap, inorder,
                                 left, right>>
         /\ call'.op = "set_trees" => CacheDiscarded
         /\ (call'.op = "match" /\ ~NoArguments(call'))
               => IF raised' = "none" THEN NewList ELSE CacheDiscarded
         /\ (call'.op = "match" /\ NoArguments(call') /\ matchesId = 0
               /\ raised' = "none") => NewList]_vars

\* match() answered from the cache of a call before the last one.
C7_Witness ==
    /\ call.op = "match" /\ NoArguments(call)
    /\ ret.id # 0 /\ ret.id < calls - 1
    /\ ret.id = matchesId /\ ret.list = matches
    /\ Len(ret.list) > 1

AttrRank(a) ==
    CASE a.op = "UpdateAttrib" -> 1
      [] a.op = "InsertAttrib" -> 2
      [] a.op = "DeleteAttrib" -> 3
      [] OTHER -> 0

NamesOf(out, op) == {out[i].name : i \in {j \in 1..Len(out) : out[j].op = op}}

\* C8: for one node the attribute actions come in this order: the
\* UpdateAttrib of the keys on both sides with differing values in ascending
\* key order, then the InsertAttrib of the keys only on the right in
\* ascending order, then the DeleteAttrib of the keys only on the left in
\* ascending order; a key gets at most one action, an equal value none.
C8_AttribOrder ==
    attrRes.done =>
        LET out == attrRes.out
            L == attrIn.left
            R == attrIn.right
        IN /\ \A i \in 1..Len(out) :
                 AttrRank(out[i]) \in 1..3 /\ out[i].node = AttrPath
           /\ \A i \in 1..Len(out), j \in 1..Len(out) :
                 i < j => \/ AttrRank(out[i]) < AttrRank(out[j])
                          \/ /\ AttrRank(out[i]) = AttrRank(out[j])
                             /\ out[i].name < out[j].name
           /\ NamesOf(out, "UpdateAttrib") =
                 {k \in Keys(L) \cap Keys(R) : Get(L, k) # Get(R, k)}
           /\ NamesOf(out, "InsertAttrib") = Keys(R) \ Keys(L)
           /\ NamesOf(out, "DeleteAttrib") = Keys(L) \ Keys(R)
           /\ \A i \in 1..Len(out) :
                 out[i].op # "DeleteAttrib" => out[i].value = Get(R, out[i].name)

\* A node that gets an action of each kind and keeps no key unchanged.
C8_Witness ==
    /\ attrRes.done
    /\ Len(attrRes.out) = MaxAttrKeys
    /\ attrRes.out[1].op = "UpdateAttrib"
    /\ attrRes.out[MaxAttrKeys].op = "DeleteAttrib"
    /\ \E i \in 1..Len(attrRes.out) : attrRes.out[i].op = "InsertAttrib"
    /\ attrRes.attrib = attrIn.right

RatioLeftTag == ratioIn.left.tag[ratioIn.left.root]
RatioRightTag == ratioIn.right.tag[ratioIn.right.root]
RatioLeftAttrib == ratioIn.left.attrib[ratioIn.left.root]
RatioRightAttrib == ratioIn.right.attrib[ratioIn.right.root]

\* The entry applies to the two nodes: a plain name, or the tag of both.
Applies(e) == e.tag = "" \/ (e.tag = RatioLeftTag /\ e.tag = RatioRightTag)
\* One of the nodes carries the attribute of the entry.
Carried(e) ==
    HasKey(RatioLeftAttrib, e.attr) \/ HasKey(RatioRightAttrib, e.attr)
\* Both nodes carry it, with one value.
SameValue(e) ==
    /\ HasKey(RatioLeftAttrib, e.attr) /\ HasKey(RatioRightAttrib, e.attr)
    /\ Get(RatioLeftAttrib, e.attr) = Get(RatioRightAttrib, e.attr)

\* The ratio is exactly 1 on one value, exactly 0 on differing values or
\* when only one node carries the attribute.
UniqueAttrRule(e) ==
    /\ SameValue(e) => ratioOut = <<1, 1>>
    /\ (Carried(e) /\ ~SameValue(e)) => ratioOut = <<0, 1>>

\* C9 as stated: for any uniqueattrs list and any two nodes, every entry
\* that applies to them decides: node_ratio is exactly 1 when both carry the
\* same value for it and exactly 0 when the values differ or only one
\* carries it, whatever the text and the children.
C9_AnyEntryDecides ==
    ratioOut # NoRatio =>
        \A i \in 1..Len(ratioIn.ua) :
            Applies(ratioIn.ua[i]) => UniqueAttrRule(ratioIn.ua[i])

\* The entries that apply and that one of the nodes carries.
Deciders ==
    {i \in 1..Len(ratioIn.ua) :
        Applies(ratioIn.ua[i]) /\ Carried(ratioIn.ua[i])}

\* C9: the first entry of uniqueattrs, in list order, that applies to the
\* two nodes and that at least one of them carries decides: node_ratio is
\* exactly 1 when both carry the same value for it, exactly 0 when the
\* values differ or only one carries it, whatever the text, the children
\* and the later entries.
C9_FirstEntryDecides ==
    (ratioOut # NoRatio /\ Deciders # {}) =>
        UniqueAttrRule(ratioIn.ua[CHOOSE i \in Deciders :
                                      \A j \in Deciders : i <= j])

\* Two entries apply and disagree: both nodes carry the attribute of the
\* first with one value and differ on the attribute of the second; the
\* first decides, against the text and the children too.
C9_Witness ==
    /\ ratioOut = <<1, 1>>
    /\ Len(ratioIn.ua) = 2
    /\ Deciders = {1, 2}
    /\ SameValue(ratioIn.ua[1]) /\ ~SameValue(ratioIn.ua[2])
    /\ ratioIn.right.text[1] # ratioIn.left.text[1]
    /\ Len(ratioIn.right.kids[1]) = 1

\* The earlier requests for the key of request j.
SeenBefore(j) == {i \in 1..(j - 1) : requests[i].key = requests[j].key}

\* C10: over any sequence of get_placeholder, get_both_placeholders and
\* get_modified_ph calls, a request whose (canonical form, kind, close_ref)
\* was seen before gets the codepoint assigned the first time, a new key
\* gets a codepoint greater than every codepoint assigned before, no
\* codepoint goes to two keys or is reassigned, and placeholder2tag and
\* tag2placeholder stay mutually inverse.
C10_Allocation ==
    /\ \A j \in 1..Len(requests) :
          IF SeenBefore(j) # {}
            THEN \A i \in SeenBefore(j) : requests[j].ph = requests[i].ph
            ELSE /\ requests[j].ph > PLACEHOLDER_START
                 /\ \A i \in 1..(j - 1) : requests[j].ph > requests[i].ph
    /\ \A i \in 1..Len(requests), j \in 1..Len(requests) :
          requests[i].ph = requests[j].ph => requests[i].key = requests[j].key
    /\ DOMAIN tag2placeholder = {requests[i].key : i \in 1..Len(requests)}
    /\ DOMAIN placeholder2tag = {requests[i].ph : i \in 1..Len(requests)}
    /\ \A i \in 1..Len(requests) :
          LET key == requests[i].key
              ph == requests[i].ph
          IN /\ tag2placeholder[key] = ph
             /\ placeholder2tag[ph].ttype = key[2]
             /\ placeholder2tag[ph].close_ph = key[3]
             /\ placeholder2tag[ph].element = [key[1] EXCEPT !.text = <<>>]
    /\ \A ph \in DOMAIN placeholder2tag : ph <= placeholder

\* Calls that asked again for a key seen before and for a new key that
\* differs from an earlier one in the close_ref alone.
C10_Witness ==
    /\ codecCalls = MaxCodecCalls
    /\ \E j \in 1..Len(requests) : j > 4 /\ SeenBefore(j) # {}
    /\ \E i \in 1..Len(requests), j \in 1..Len(requests) :
          /\ i > 4 /\ i < j
          /\ requests[i].key[1] = requests[j].key[1]
          /\ requests[i].key[2] = requests[j].key[2]
          /\ requests[i].key[3] # requests[j].key[3]
          /\ requests[i].ph < requests[j].ph

\* ----------------------------------------------- the formatter's claims

\* The nodes named name that carry no diff:delete, in document order, among
\* the children of node (at the start of a path: the root element).
LiveNamed(t, node, name, atRoot) ==
    SelectSeq(IF atRoot THEN <<t.root>> ELSE t.kids[node],
              LAMBDA c : t.tag[c] = name /\ <<DELETE_NAME, "">> \notin t.attrib[c])

\* The node a path selects when every step name[k] takes the k-th such node
\* and every step name the only one; 0 when some step selects none.
RECURSIVE Selects(_, _, _, _)
Selects(t, node, path, atRoot) ==
    LET live == LiveNamed(t, node, Head(path)[1], atRoot)
        k == Head(path)[2]
        here == IF k = 0 THEN (IF Len(live) = 1 THEN live[1] ELSE 0)
                ELSE IF k <= Len(live) THEN live[k] ELSE 0
    IN IF here = 0 \/ Tail(path) = <<>> THEN here
       ELSE Selects(t, here, Tail(path), FALSE)

NodePathOf(action) ==
    IF action.op \in {"DeleteNode", "MoveNode", "RenameNode"} THEN action.node
    ELSE <<>>
TargetPathOf(action) ==
    IF action.op \in {"InsertNode", "MoveNode"} THEN action.target ELSE <<>>

\* C11: DeleteNode removes no node of the formatter's tree, it only sets the
\* diff:delete marker on the node its path selects (tags, texts, children and
\* every other attribute stay); and whenever a later action resolves a path,
\* each step name[k] selects the k-th node named name among the nodes that
\* carry no diff:delete.
C11_DeleteMarksOnly ==
    /\ (fAction.op = "DeleteNode" /\ fRaised = "none") =>
          /\ fFound.node \in Nodes(fBefore)
          /\ ftree = [fBefore EXCEPT !.attrib[fFound.node] =
                                        @ \cup {<<DELETE_NAME, "">>}]
    /\ (fAction.op # "none" /\ fRaised = "none") =>
          /\ NodePathOf(fAction) # <<>> =>
                fFound.node = Selects(fBefore, fBefore.root, NodePathOf(fAction), TRUE)
          /\ TargetPathOf(fAction) # <<>> =>
                fFound.target = Selects(fBefore, fBefore.root, TargetPathOf(fAction), TRUE)

\* A DeleteNode has marked a node, and a later action has resolved a step
\* name[k] to a node that follows the marked node among the children of that
\* name: the marked node is still there and was not counted.
C11_Witness ==
    /\ fCalls = 2 /\ fRaised = "none" /\ fAction.op \in {"DeleteNode", "RenameNode"}
    /\ \E d \in Nodes(fBefore) :
          /\ <<DELETE_NAME, "">> \in fBefore.attrib[d]
          /\ <<MOVE_NAME, "">> \notin fBefore.attrib[d]
          /\ Parent(fBefore, d) = Parent(fBefore, fFound.node)
          /\ Parent(ftree, d) = Parent(fBefore, d)
          /\ fBefore.tag[d] = fBefore.tag[fFound.node]
          /\ IndexOf(fBefore.kids[Parent(fBefore, d)], d)
               < IndexOf(fBefore.kids[Parent(fBefore, d)], fFound.node)
          /\ fAction.node[Len(fAction.node)][2] = 1

\* The children of a list that carry no diff:delete / that carry it.
LiveOf(t, children) ==
    SelectSeq(children, LAMBDA c : <<DELETE_NAME, "">> \notin t.attrib[c])
MarkedOf(t, children) ==
    SelectSeq(children, LAMBDA c : <<DELETE_NAME, "">> \in t.attrib[c])

\* The tree differs from the earlier one only in the children of target,
\* which are the earlier children with node put in at 0-based index i.
PutInAt(before, after, target, node, i) ==
    /\ i \in 0..Len(before.kids[target])
    /\ after.kids[target] = SubSeq(before.kids[target], 1, i) \o <<node>>
                              \o SubSeq(before.kids[target], i + 1,
                                        Len(before.kids[target]))
    /\ \A n \in Nodes(before) : n # target => after.kids[n] = before.kids[n]

\* Index i in the children of target is where an insertion at position pos
\* belongs: i is pos plus the number of marked children before it, and
\* exactly pos unmarked children precede it, or all of them if there are
\* fewer than pos.
RightPlace(t, children, pos, i) ==
    /\ Len(LiveOf(t, SubSeq(children, 1, i)))
         = (IF pos <= Len(LiveOf(t, children)) THEN pos
            ELSE Len(LiveOf(t, children)))
    /\ pos <= Len(LiveOf(t, children)) =>
          i = pos + Len(MarkedOf(t, SubSeq(children, 1, i)))
    /\ pos > Len(LiveOf(t, children)) => i = Len(children)

\* C12: InsertNode(target, tag, pos) puts one new empty element named tag,
\* carrying diff:insert only, among the children of the node its target path
\* selects, at the child index pos plus the number of diff:delete-marked
\* children that precede the insertion point, so that exactly pos non-deleted
\* children precede it (all of them if there are fewer than pos); nothing
\* else of the tree changes.
C12_InsertPosition ==
    (fAction.op = "InsertNode" /\ fRaised = "none") =>
        LET new_node == Len(fBefore.tag) + 1
        IN /\ Len(ftree.tag) = new_node
           /\ ftree.tag[new_node] = fAction.tag
           /\ ftree.text[new_node] = <<>> /\ ftree.tail[new_node] = <<>>
           /\ ftree.kids[new_node] = <<>>
           /\ ftree.attrib[new_node] = {<<INSERT_NAME, "">>}
           /\ \A n \in Nodes(fBefore) :
                 /\ ftree.tag[n] = fBefore.tag[n]
                 /\ ftree.text[n] = fBefore.text[n]
                 /\ ftree.tail[n] = fBefore.tail[n]
                 /\ ftree.attrib[n] = fBefore.attrib[n]
           /\ new_node \in Range(ftree.kids[fFound.target])
           /\ PutInAt(fBefore, ftree, fFound.target, new_node,
                      IndexOf(ftree.kids[fFound.target], new_node))
           /\ RightPlace(fBefore, fBefore.kids[fFound.target], fAction.position,
                         IndexOf(ftree.kids[fFound.target], new_node))

\* An InsertNode whose target has a marked child before the insertion point
\* and a child after it: the index is greater than the position.
C12_Witness ==
    /\ fAction.op = "InsertNode" /\ fRaised = "none" /\ fCalls = 2
    /\ LET new_node == Len(fBefore.tag) + 1
           i == IndexOf(ftree.kids[fFound.target], new_node)
       IN /\ new_node \in Range(ftree.kids[fFound.target])
          /\ i > fAction.position
          /\ fAction.position > 0
          /\ i < Len(fBefore.kids[fFound.target])

\* The node of the tree that the action added to the children of target.
AddedChild(before, after, target) ==
    CHOOSE c \in Range(after.kids[target]) : c \notin Nodes(before)

\* Node c of the later tree is a deep copy of node n of the earlier one, but
\* for the attributes of c itself.
CopyOf(before, n, after, c) ==
    /\ after.tag[c] = before.tag[n]
    /\ after.text[c] = before.text[n]
    /\ after.tail[c] = before.tail[n]
    /\ Len(after.kids[c]) = Len(before.kids[n])
    /\ \A i \in 1..Len(before.kids[n]) :
          SubtreeEq(before, before.kids[n][i], after, after.kids[c][i])

\* C13: MoveNode leaves the source node where it is, marked diff:delete and
\* diff:move, and puts a deep copy of it, taken before the marking and marked
\* diff:insert and diff:move, among the children of the target at the
\* position translated past the deleted siblings, the just-marked source
\* counted among them when it is a child of the target.
C13_MoveCopies ==
    (fAction.op = "MoveNode" /\ fRaised = "none") =>
        /\ \E c \in Range(ftree.kids[fFound.target]) : c \notin Nodes(fBefore)
        /\ LET Moved(node, target, c) ==
                   /\ ftree.attrib[node] =
                        SetKey(SetKey(fBefore.attrib[node], DELETE_NAME, ""),
                               MOVE_NAME, "")
                   /\ ftree.attrib[c] =
                        SetKey(SetKey(fBefore.attrib[node], INSERT_NAME, ""),
                               MOVE_NAME, "")
                   /\ <<DELETE_NAME, "">> \notin ftree.attrib[c]
                   /\ CopyOf(fBefore, node, ftree, c)
                   /\ \A n \in Nodes(fBefore) :
                         /\ ftree.tag[n] = fBefore.tag[n]
                         /\ ftree.text[n] = fBefore.text[n]
                         /\ ftree.tail[n] = fBefore.tail[n]
                         /\ n # node => ftree.attrib[n] = fBefore.attrib[n]
                   /\ PutInAt(fBefore, ftree, target, c,
                              IndexOf(ftree.kids[target], c))
                   /\ RightPlace(ftree, fBefore.kids[target], fAction.position,
                                 IndexOf(ftree.kids[target], c))
           IN Moved(fFound.node, fFound.target,
                    AddedChild(fBefore, ftree, fFound.target))

\* A move within one parent to a later place: the source, just marked, stands
\* before the copy and is the only marked child, so the index of the copy is
\* the position plus one; the source has a child, which the copy has too.
C13_Witness ==
    /\ fAction.op = "MoveNode" /\ fRaised = "none" /\ fCalls = 1
    /\ fFound.node \in Range(ftree.kids[fFound.target])
    /\ fBefore.kids[fFound.node] # <<>>
    /\ \E c \in Range(ftree.kids[fFound.target]) :
          /\ c \notin Nodes(fBefore)
          /\ IndexOf(ftree.kids[fFound.target], c) = fAction.position + 1
          /\ IndexOf(ftree.kids[fFound.target], fFound.node)
               < IndexOf(ftree.kids[fFound.target], c)
          /\ Len(MarkedOf(ftree, ftree.kids[fFound.target])) = 1

PathsOf(action) ==
    (IF "node" \in DOMAIN action THEN {action.node} ELSE {})
    \cup (IF "target" \in DOMAIN action THEN {action.target} ELSE {})

\* C15: every path carried by an action of the edit script, node path and
\* target path alike, has an explicit 1-based [k] on every step.
C15_EveryStepCounted ==
    \A i \in 1..Len(script) :
        \A path \in PathsOf(script[i]) :
            \A j \in 1..Len(path) : path[j][2] >= 1

\* match() has paired every node of L with its counterpart in R.
CounterpartsMatched ==
    \A n \in Nodes(call.left) :
        /\ n \in DOMAIN l2rmap /\ l2rmap[n] = n
        /\ n \in DOMAIN r2lmap /\ r2lmap[n] = n

\* C16: when R is L with exactly one subtree relocated, to another parent or
\* to another position under its parent, and the matcher has paired every
\* node with its counterpart, the edit script is exactly one MoveNode.
C16_OneMove ==
    (pc = "done" /\ call.op = "diff" /\ raised = "none" /\ CounterpartsMatched)
        => (Len(script) = 1 /\ script[1].op = "MoveNode")

\* A drained run on a tree of MaxMoveNodes nodes one of which went to another
\* parent, every node matched with its counterpart.
C16_Witness ==
    /\ pc = "done" /\ call.op = "diff" /\ raised = "none" /\ CounterpartsMatched
    /\ Len(call.left.tag) = MaxMoveNodes
    /\ \E n \in Nodes(call.left) :
          Parent(call.left, n) # Parent(call.right, n)

\* How many actions of the script are of the kind op.
CountOp(op) == Cardinality({i \in 1..Len(script) : script[i].op = op})

\* The nodes of the two trees that match() left without a partner.
UnmatchedLeft(ms) == {n \in Nodes(call.left) : n \notin DOMAIN ms.l2r}
UnmatchedRight(ms) == {n \in Nodes(call.right) : n \notin DOMAIN ms.r2l}

\* C17: the edit script has exactly one InsertNode for each right node that
\* match() left unmatched and exactly one DeleteNode for each left node that
\* match() left unmatched, and none for a matched node: every unmatched left
\* node is gone from the left copy, every matched one is still in it, and the
\* copy has one new node for each unmatched right node.  When only the roots
\* are matched, every left descendant is deleted and every right descendant
\* inserted.
C17_InsertsAndDeletes ==
    (pc = "done" /\ call.op = "diff" /\ raised = "none") =>
        LET Counted(ms) ==
                /\ CountOp("InsertNode") = Cardinality(UnmatchedRight(ms))
                /\ CountOp("DeleteNode") = Cardinality(UnmatchedLeft(ms))
                /\ \A n \in Nodes(call.left) :
                      (n \in UnmatchedLeft(ms))
                          <=> (n \notin Range(post_order_traverse(left, left.root)))
                /\ Len(left.tag) = Len(call.left.tag) + Cardinality(UnmatchedRight(ms))
                /\ Cardinality(DOMAIN ms.l2r) = 1 =>
                      /\ CountOp("DeleteNode") = Len(call.left.tag) - 1
                      /\ CountOp("InsertNode") = Len(call.right.tag) - 1
        IN Counted(ComputeMatch(call.left, call.right, uniqueattrs, fast_match))

\* A drained run in which match() paired a node below the root and left a
\* node unmatched on either side: the script has an InsertNode and a
\* DeleteNode.
C17_Witness ==
    /\ pc = "done" /\ call.op = "diff" /\ raised = "none"
    /\ CountOp("InsertNode") >= 1 /\ CountOp("DeleteNode") >= 1
    /\ Len(call.left.tag) = MaxNodes /\ Len(call.right.tag) = MaxNodes
    /\ \E n \in Nodes(call.left) :
          n # call.left.root /\ n \in Range(post_order_traverse(left, left.root))

\* The node of t that a path of the script addresses, 0 if there is none:
\* a step name[k] is the k-th child of that name, a step name the only one.
RECURSIVE Addressed(_, _, _, _)
Addressed(t, node, path, atRoot) ==
    LET named == SelectSeq(IF atRoot THEN <<t.root>> ELSE t.kids[node],
                           LAMBDA c : t.tag[c] = Head(path)[1])
        k == Head(path)[2]
        here == IF k = 0 THEN (IF Len(named) = 1 THEN named[1] ELSE 0)
                ELSE IF k <= Len(named) THEN named[k] ELSE 0
    IN IF here = 0 \/ Tail(path) = <<>> THEN here
       ELSE Addressed(t, here, Tail(path), FALSE)

\* The siblings that follow n under its parent.
LaterSiblings(t, n) ==
    {t.kids[Parent(t, n)][i] :
        i \in (IndexOf(t.kids[Parent(t, n)], n) + 2)..Len(t.kids[Parent(t, n)])}

\* C18: all DeleteNode actions come after every other action of the script;
\* when a DeleteNode is emitted, its path addresses a node that is in the left
\* copy at that moment, no unmatched descendant of that node is left in the
\* copy (they were deleted before it) and no unmatched later sibling (later
\* siblings are deleted before earlier ones); the node is then removed.
C18_DeletesLast ==
    /\ [](\A i \in 1..Len(script) : \A j \in 1..Len(script) :
             (i < j /\ script[i].op = "DeleteNode") => script[j].op = "DeleteNode")
    /\ [][(pc = "delete" /\ script' # script) =>
            /\ Len(script') = Len(script) + 1
            /\ script'[Len(script')].op = "DeleteNode"
            /\ Head(todo) \in Range(post_order_traverse(left, left.root))
            /\ Addressed(left, left.root, script'[Len(script')].node, TRUE) = Head(todo)
            /\ Head(todo) \notin DOMAIN l2rmap
            /\ \A d \in Range(post_order_traverse(left, Head(todo))) \ {Head(todo)} :
                  d \in DOMAIN l2rmap
            /\ \A sb \in LaterSiblings(left, Head(todo)) : sb \in DOMAIN l2rmap
            /\ Head(todo) \notin Range(post_order_traverse(left', left'.root))
         ]_vars

\* A drained run whose script starts with another action and ends with the
\* DeleteNode actions of two left nodes, the second of which had the first
\* as its later sibling or its child.
C18_Witness ==
    /\ pc = "done" /\ call.op = "diff" /\ raised = "none"
    /\ Len(script) >= 3
    /\ script[1].op # "DeleteNode"
    /\ script[Len(script)].op = "DeleteNode"
    /\ script[Len(script) - 1].op = "DeleteNode"

\* ------------------------------------------- the rich-text renderer's claims

\* The token at index k of the output is the open placeholder of a tag.
IsOpenAt(k) ==
    /\ Len(rOut[k]) = 1 /\ rOut[k][1] \in DOMAIN placeholder2tag
    /\ placeholder2tag[rOut[k][1]].ttype = T_OPEN
TagAt(k) == placeholder2tag[rOut[k][1]].element.tag
IsDualTag(tg) == \E d \in 1..Len(dual_formatting_tags) : dual_formatting_tags[d] = tg
IsComplexTag(tg) == tg \in formatting_tags /\ ~IsDualTag(tg)
\* The opens at i and at j > i are emitted at the same token position:
\* nothing but opens lies between them.
SamePosition(i, j) == i < j /\ \A k \in i..j : IsOpenAt(k)
Rendered == rPc \in {"formatted", "finalized"} /\ rRaised = "none"

\* C19: in the HTML rich-text renderer, when the open of a complex tag (a,
\* its derived variants included) and the open of a dual formatting tag
\* (b, its insert-formatting and delete-formatting variants included) are
\* emitted at the same token position, the complex open is emitted first:
\* no open of a dual tag precedes the open of a complex tag there.
C19_ComplexOpensFirst ==
    Rendered =>
        \A i \in 1..Len(rOut), j \in 1..Len(rOut) :
            SamePosition(i, j) => ~(IsDualTag(TagAt(i)) /\ IsComplexTag(TagAt(j)))

LinksOf(placeholders) ==
    {ph \in placeholders : placeholder2tag[ph].element.tag = "a"}
\* The indexes of the words of a list of tokens, the placeholders left out.
WordIndexes(tokens) ==
    SelectSeq([k \in 1..Len(tokens) |-> k],
              LAMBDA k : ~IsPlaceholderToken(placeholder2tag, tokens[k]))
CountBefore(tokens, k, ph) ==
    Cardinality({m \in 1..(k - 1) : tokens[m] = <<ph>>})
\* The open placeholders whose element the token at index k lies inside.
Enclosing(tokens, k) ==
    {ph \in DOMAIN placeholder2tag :
        /\ placeholder2tag[ph].ttype = T_OPEN
        /\ CountBefore(tokens, k, ph)
             > CountBefore(tokens, k, placeholder2tag[ph].close_ph)}
LeftTokens == splitString(rLeft.text, DOMAIN placeholder2tag)
RightTokens == splitString(rRight.text, DOMAIN placeholder2tag)
\* The index in its own text of the token of the left, of the right side
\* that the token i of the diff is.
LeftIndexOf(i) == Cardinality({m \in 1..i : rWords[m][1] # 1})
RightIndexOf(i) == Cardinality({m \in 1..i : rWords[m][1] # -1})
LeftLinks(i) ==
    LinksOf(Enclosing(LeftTokens, WordIndexes(LeftTokens)[LeftIndexOf(i)])
            \ Enclosing(RightTokens, WordIndexes(RightTokens)[RightIndexOf(i)]))
RightLinks(i) ==
    LinksOf(Enclosing(RightTokens, WordIndexes(RightTokens)[RightIndexOf(i)])
            \ Enclosing(LeftTokens, WordIndexes(LeftTokens)[LeftIndexOf(i)]))
\* The token i of the diff is unchanged and lies on each side inside a
\* link that the other side has not.
LinkChanged(i) ==
    rWords[i][1] = 0 /\ LeftLinks(i) # {} /\ RightLinks(i) # {}
HrefOf(ph) == Get(placeholder2tag[ph].element.attrib, "href")
LinksWith(placeholders, key) ==
    {ph \in LinksOf(placeholders) :
        HasKey(placeholder2tag[ph].element.attrib, key)}

\* C20: an unchanged token inside an a element on both sides, the two a
\* placeholders different: one inserted link is paired with one deleted
\* link.  With equal href the token is rendered inside the left link,
\* which carries no diff marker; with different href it is rendered inside
\* exactly one a element carrying diff:change-target "old -> new", and that
\* element carries nothing else.  The pair yields no insert-formatting and
\* no delete-formatting a element: fewer such elements enclose the token
\* than there are inserted, deleted links.
C20_LinkMerge ==
    Rendered =>
        \A i \in 1..Len(rWords) :
            LinkChanged(i) =>
                LET Inside(out) ==
                        /\ \E ins \in RightLinks(i), del \in LeftLinks(i) :
                              IF HrefOf(del) = HrefOf(ins)
                                THEN /\ del \in out
                                     /\ LinksWith(out, "diff:change-target") = {}
                                ELSE \E ct \in out :
                                       /\ LinksWith(out, "diff:change-target") = {ct}
                                       /\ placeholder2tag[ct].element.attrib
                                            = {<<"diff:change-target",
                                                 ChangeTarget(HrefOf(del),
                                                              HrefOf(ins))>>}
                        /\ Cardinality(LinksWith(out, DiffAttribute("insert-formatting")))
                             < Cardinality(RightLinks(i))
                        /\ Cardinality(LinksWith(out, DiffAttribute("delete-formatting")))
                             < Cardinality(LeftLinks(i))
                IN Inside(Enclosing(rOut, WordIndexes(rOut)[i]))

\* A token rendered inside the a element of a changed target.
C20_Witness ==
    /\ Rendered
    /\ \E i \in 1..Len(rWords) :
          /\ LinkChanged(i)
          /\ \E ins \in RightLinks(i), del \in LeftLinks(i) : HrefOf(del) # HrefOf(ins)
          /\ LinksWith(Enclosing(rOut, WordIndexes(rOut)[i]), "diff:change-target") # {}

\* ---------------------------------------------------------------------
\* The claims on the trees of the caller and on the order of the script
\* ---------------------------------------------------------------------

\* The call at hand is a match or a diff on two elements given by the caller.
RunOnGivenTrees ==
    /\ call.op \in {"match", "diff"}
    /\ iselement(call.left) /\ iselement(call.right)
    /\ raised = "none"

\* C21: match and diff change neither the right tree nor the left tree the
\* caller passed: at every step of a run the right tree and the caller's
\* left tree are what they were at the call, and every insertion, move,
\* rename, attribute change, text change and removal shows only in the
\* deep copy set_trees made.
C21_CallerTreesUntouched ==
    RunOnGivenTrees => /\ right = call.right
                       /\ leftArg = call.left

\* A finished run that inserted, removed and updated nodes of its copy.
C21_Witness ==
    /\ RunOnGivenTrees /\ call.op = "diff" /\ pc = "done"
    /\ left # call.left /\ leftArg = call.left /\ right = call.right
    /\ \E i \in 1..Len(script) : script[i].op = "InsertNode"
    /\ \E i \in 1..Len(script) : script[i].op = "DeleteNode"
    /\ \E i \in 1..Len(script) : script[i].op = "UpdateTextIn"

\* The actions the step at hand appends to the script.
Emitted == SubSeq(script', Len(script) + 1, Len(script'))

AttribOps == {"InsertAttrib", "DeleteAttrib", "UpdateAttrib"}

\* The place of an action in the order of one visit; the InsertNode or
\* MoveNode of the visited node itself is looked at apart.
ActionPhase(a) ==
    CASE a.op = "RenameNode" -> 2
      [] a.op \in AttribOps -> 3
      [] a.op = "MoveNode" -> 4
      [] a.op = "UpdateTextIn" -> 5
      [] a.op = "UpdateTextAfter" -> 6
      [] OTHER -> 0

\* The actions of one visit after the InsertNode or MoveNode of the node
\* itself: at most one RenameNode, the attribute actions, the MoveNode
\* actions into the node, at most one UpdateTextIn and one UpdateTextAfter.
InVisitOrder(out, lpath) ==
    /\ \A i \in 1..Len(out) : ActionPhase(out[i]) # 0
    /\ \A i \in 1..Len(out) : \A j \in 1..Len(out) :
          i < j => /\ ActionPhase(out[i]) <= ActionPhase(out[j])
                   /\ ActionPhase(out[i]) \in {2, 5, 6}
                         => ActionPhase(out[i]) < ActionPhase(out[j])
    /\ \A i \in 1..Len(out) :
          /\ out[i].op = "MoveNode" => out[i].target = lpath
          /\ out[i].op \in AttribOps \cup {"UpdateTextIn", "UpdateTextAfter"}
                => out[i].node = lpath

\* C22: the right nodes are visited in breadth-first order, and the actions
\* of one visit come in this order: the InsertNode (node without partner) or
\* the MoveNode (partner under another parent) of the node itself, then
\* RenameNode, the attribute actions, the MoveNode actions that align its
\* children, UpdateTextIn, UpdateTextAfter; no text action of the visit
\* comes before a structural or attribute action of the same visit.
C22_VisitOrder ==
    [][(pc = "bfs" /\ todo # <<>>) =>
         LET rnode == Head(todo)
             rparent == Parent(right, rnode)
             ltarget == IF rparent \in DOMAIN r2lmap THEN r2lmap[rparent] ELSE 0
             out == Emitted
             unmatched == rnode \notin DOMAIN r2lmap
             moved == ~unmatched /\ Parent(left, r2lmap[rnode]) # ltarget
         IN /\ \E k \in 1..Len(right.tag) :
                   todo = SubSeq(breadth_first_traverse(right, right.root), k,
                                 Len(breadth_first_traverse(right, right.root)))
            /\ unmatched =>
                  /\ out # <<>>
                  /\ Head(out) = InsertNode(getpath(left, ltarget),
                                            right.tag[rnode], Head(out).position)
            /\ moved =>
                  /\ out # <<>>
                  /\ Head(out) = MoveNode(getpath(left, r2lmap[rnode]),
                                          getpath(left, ltarget),
                                          Head(out).position)
            /\ InVisitOrder(IF unmatched \/ moved THEN Tail(out) ELSE out,
                            getpath(left', r2lmap'[rnode]))
      ]_vars

\* The visit of the root has emitted a RenameNode, attribute actions, a
\* MoveNode that aligns two children and a text action last, in that order.
C22_Witness ==
    /\ pc = "bfs" /\ call.op = "diff"
    /\ Len(todo) = Len(right.tag) - 1
    /\ \E i, j, k \in 1..Len(script) :
          /\ i < j /\ j < k /\ k < Len(script)
          /\ script[i].op = "RenameNode"
          /\ script[j].op \in AttribOps
          /\ script[k].op = "MoveNode"
          /\ script[Len(script)].op = "UpdateTextIn"

\* The left children counted by the statement of C23: up to and including
\* sibling_match, those in order or without partner, node_match left out.
RECURSIVE CountInOrderOrUnmatched(_, _, _, _, _, _)
CountInOrderOrUnmatched(children, node_match, sibling_match, ino, l2r, i) ==
    IF children = <<>> THEN i
    ELSE LET child == Head(children)
             j == IF child # node_match
                     /\ (LNode(child) \in ino \/ child \notin DOMAIN l2r)
                    THEN i + 1 ELSE i
         IN IF child = sibling_match THEN j
            ELSE CountInOrderOrUnmatched(Tail(children), node_match,
                                         sibling_match, ino, l2r, j)

\* The position the statement of C23 gives for the right node.
StatedPos(g, rt, node) ==
    LET siblings == rt.kids[Parent(rt, node)]
        s == LastInOrderBefore(siblings, IndexOf(siblings, node), g.inorder)
        node_match == IF node \in DOMAIN g.ms.r2l THEN g.ms.r2l[node] ELSE 0
    IN IF s = 0 THEN 0
       ELSE CountInOrderOrUnmatched(g.left.kids[Parent(g.left, g.ms.r2l[s])],
                                    node_match, g.ms.r2l[s], g.inorder,
                                    g.ms.l2r, 0)

\* The generator is about to call find_pos for the right node it visits:
\* the node has no partner, or its partner hangs under another parent.
FindPosCalled ==
    /\ pc = "bfs" /\ todo # <<>> /\ Head(todo) # right.root
    /\ Head(todo) \in DOMAIN r2lmap
          => Parent(left, r2lmap[Head(todo)]) # r2lmap[Parent(right, Head(todo))]

\* C23: find_pos(r) is 0 when no previous sibling of r is in order;
\* otherwise it is the number of children of the parent of s_left, up to and
\* including s_left, that are in order or unmatched, the partner of r left
\* out, s being the rightmost previous sibling in order; a matched sibling
\* that is not in order is not counted.
C23_FindPos ==
    FindPosCalled
        => find_pos(Gen, right, Head(todo)) = StatedPos(Gen, right, Head(todo))

\* C24: for every pair of nodes the weight leaf_ratio returns is the larger
\* of the lengths of the two normalized node texts, also when both texts are
\* empty, with the same tag or not, and when exactly one is empty.
C24_LeafWeight ==
    (call.op = "diff" /\ raised = "none") =>
        \A l \in Nodes(call.left) : \A r \in Nodes(call.right) :
            leaf_ratio(call.left, l, call.right, r)[1]
              = Max(TextLen(node_text(call.left, l)),
                    TextLen(node_text(call.right, r)))

\* ---------------------------------------------------------------------
\* The claims on the two passes of match
\* ---------------------------------------------------------------------

\* The lists and the match state the greedy pass of match(lt, rt) starts
\* from: the nodes in post-order without the roots and without the pairs of
\* the fast path.
GreedyInput(lt, rt, ua, fast) ==
    LET Left(lnodes0, rnodes0, pairs) ==
            [lnodes |-> PopAll(lnodes0, [i \in 1..Len(pairs) |-> pairs[i][1]]),
             rnodes |-> PopAll(rnodes0, [i \in 1..Len(pairs) |-> pairs[i][2]]),
             ms |-> AppendAll(NoMatches, lnodes0, rnodes0, pairs)]
        Fast(lnodes0, rnodes0) ==
            Left(lnodes0, rnodes0,
                 IF fast THEN FastMatches(lt, lnodes0, rt, rnodes0, ua) ELSE <<>>)
    IN Fast(RemoveFirst(post_order_traverse(lt, lt.root), lt.root),
            RemoveFirst(post_order_traverse(rt, rt.root), rt.root))

\* What the statement of C25 says of the turn of the i-th left node, res
\* being the match state after the pass that started from inp.
GreedyTurn(lt, rt, ua, inp, res, i) ==
    LET lnode == inp.lnodes[i]
        earlier == {inp.lnodes[k] : k \in 1..(i - 1)} \cap DOMAIN res.l2r
        l2r == [x \in DOMAIN inp.ms.l2r \cup earlier |-> res.l2r[x]]
        unpaired == SelectSeq(inp.rnodes,
                              LAMBDA r : r \notin {res.l2r[x] : x \in earlier})
        Score(k) == node_ratio(lt, lnode, rt, unpaired[k], l2r, ua)
        ones == {k \in 1..Len(unpaired) : RatIsOne(Score(k))}
        last == IF ones = {} THEN Len(unpaired)
                ELSE CHOOSE k \in ones : \A k2 \in ones : k <= k2
        firstBest == {k \in 1..last :
                        /\ \A k2 \in 1..last : RatGe(Score(k), Score(k2))
                        /\ \A k2 \in 1..(k - 1) : RatGt(Score(k), Score(k2))}
    IN IF \E k \in firstBest : AboveF(Score(k))
         THEN /\ lnode \in DOMAIN res.l2r
              /\ \E k \in firstBest : res.l2r[lnode] = unpaired[k]
         ELSE lnode \notin DOMAIN res.l2r

\* The greedy pass keeps the pairs it starts from and pairs each remaining
\* left node as the statement of C25 says.
GreedyAsStated(lt, rt, ua, inp, res) ==
    /\ \A x \in DOMAIN inp.ms.l2r : x \in DOMAIN res.l2r /\ res.l2r[x] = inp.ms.l2r[x]
    /\ DOMAIN res.l2r \subseteq DOMAIN inp.ms.l2r \cup Range(inp.lnodes)
    /\ \A x \in DOMAIN res.l2r : \A y \in DOMAIN res.l2r :
          res.l2r[x] = res.l2r[y] => x = y
    /\ \A i \in 1..Len(inp.lnodes) : GreedyTurn(lt, rt, ua, inp, res, i)

\* match has just run for the diff at hand.
JustMatched ==
    /\ call.op = "diff" /\ raised = "none" /\ pc = "bfs" /\ script = <<>>
    /\ Len(todo) = Len(right.tag)

\* C25: in the greedy pass each remaining left node, in post-order, is paired
\* with the first right node, in post-order among those still unpaired,
\* that attains the highest node_ratio among the nodes scanned up to and
\* including the first exact 1.0; the pair is registered only if that score
\* is at least F, the chosen right node is out of the later turns, and a
\* left node whose best score is below F stays unpaired.
C25_GreedyPass ==
    JustMatched =>
        LET Pass(inp) ==
                GreedyAsStated(call.left, right, uniqueattrs, inp,
                               GreedyPass(call.left, inp.lnodes, right,
                                          inp.rnodes, inp.ms, uniqueattrs))
        IN Pass(GreedyInput(call.left, right, uniqueattrs, fast_match))

\* A pass on two left and two right nodes in which the first left node
\* takes the second right node, the better of the two that are at least F,
\* and the second left node is left with the first right node.
C25_Witness ==
    /\ JustMatched /\ ~fast_match
    /\ LET Pass(inp) ==
               LET res == GreedyPass(call.left, inp.lnodes, right, inp.rnodes,
                                     inp.ms, uniqueattrs)
               IN /\ Len(inp.lnodes) = 2 /\ Len(inp.rnodes) = 2
                  /\ AboveF(node_ratio(call.left, inp.lnodes[1], right,
                                       inp.rnodes[1], EmptyMap, uniqueattrs))
                  /\ AboveF(node_ratio(call.left, inp.lnodes[2], right,
                                       inp.rnodes[2], EmptyMap, uniqueattrs))
                  /\ res.matches = <<<<inp.lnodes[1], inp.rnodes[2]>>,
                                     <<inp.lnodes[2], inp.rnodes[1]>>>>
       IN Pass(GreedyInput(call.left, right, uniqueattrs, fast_match))

\* What the statement of C26 says of the refinement of the pair (lnode,
\* rnode): p holds the children left by the pruning, ms the match state
\* before and res the match state after the refinement of the pair.
PairRefinedAsStated(lt, lnode, rt, rnode, p, ms, res, ua) ==
    /\ \A rc \in Range(p.rchilds) :
          (\E lc \in Range(p.lchilds) :
               AboveF(node_ratio(lt, lc, rt, rc, ms.l2r, ua)))
            => /\ rc \in DOMAIN res.r2l
               /\ res.r2l[rc] \in Range(lt.kids[lnode])
    /\ \A rc \in Range(rt.kids[rnode]) \ Range(p.rchilds) :
          /\ rc \in DOMAIN res.r2l
          /\ res.r2l[rc] = ms.r2l[rc]

\* The statement of C26 along the refinement of match, pair after pair.
RECURSIVE RefinedAsStated(_, _, _, _, _)
RefinedAsStated(lt, rt, rnodes, ms, ua) ==
    IF rnodes = <<>> THEN TRUE
    ELSE LET rnode == Head(rnodes)
         IN IF rnode \in DOMAIN ms.r2l /\ rt.kids[rnode] # <<>>
              THEN LET lnode == ms.r2l[rnode]
                       After(p, res) ==
                           /\ PairRefinedAsStated(lt, lnode, rt, rnode, p, ms,
                                                  res, ua)
                           /\ RefinedAsStated(lt, rt, Tail(rnodes), res, ua)
                       Pruned(p) ==
                           After(p, RefineChilds(lt, p.lchilds, rt, p.rchilds,
                                                 ms, ua))
                   IN Pruned(PruneChilds(rt.kids[rnode], lt.kids[lnode],
                                         rt.kids[rnode], ms))
              ELSE RefinedAsStated(lt, rt, Tail(rnodes), ms, ua)

\* C26: in the refinement of a matched pair (l, r), every right child rc
\* that is not already matched to a child of l, and for which some child of
\* l not already matched to a child of r scores at least F, is paired with a
\* child of l when the refinement of (l, r) has finished; the child pairs
\* matched to each other before are left untouched.
C26_Refinement ==
    (call.op = "match" /\ raised = "none") =>
        LET After(inp) ==
                RefinedAsStated(call.left, call.right,
                    breadth_first_traverse(call.right, call.right.root),
                    GreedyPass(call.left, inp.lnodes, call.right, inp.rnodes,
                               inp.ms, uniqueattrs),
                    uniqueattrs)
        IN After(GreedyInput(call.left, call.right, uniqueattrs, fast_match))

\* ---------------------------------------------------------------------
\* The nesting of the rich-text output
\* ---------------------------------------------------------------------

\* The token is an open, a close placeholder.
IsOpenToken(p2t, token) ==
    IsPlaceholderToken(p2t, token) /\ p2t[token[1]].ttype = T_OPEN
IsCloseToken(p2t, token) ==
    IsPlaceholderToken(p2t, token) /\ p2t[token[1]].ttype = T_CLOSE

\* The tokens from index k on read against the stack of the opens still
\* open: a close closes the open on top, the opens that are open at the
\* word number n + 1 are its merged state, nothing is open at the end.
RECURSIVE ProperlyNested(_, _, _, _, _, _)
ProperlyNested(p2t, tokens, states, k, stack, n) ==
    IF k > Len(tokens) THEN stack = <<>> /\ n = Len(states)
    ELSE IF IsOpenToken(p2t, tokens[k])
      THEN /\ tokens[k][1] \notin Range(stack)
           /\ ProperlyNested(p2t, tokens, states, k + 1,
                             Append(stack, tokens[k][1]), n)
    ELSE IF IsCloseToken(p2t, tokens[k])
      THEN /\ stack # <<>>
           /\ p2t[stack[Len(stack)]].close_ph = tokens[k][1]
           /\ ProperlyNested(p2t, tokens, states, k + 1,
                             SubSeq(stack, 1, Len(stack) - 1), n)
    ELSE /\ n < Len(states)
         /\ Range(stack) = states[n + 1]
         /\ ProperlyNested(p2t, tokens, states, k + 1, stack, n + 1)

\* C27: the placeholder sequence of the rich-text linearization is properly
\* nested for every pair of inputs: each close emitted is the close of the
\* most recently emitted open that is still open, an open closed only to
\* respect the stack order is open again at the next token, the opens that
\* are open when a token is emitted are that token's merged state, and
\* nothing is left open at the end.
C27_ProperlyNested ==
    rPc \in {"formatted", "finalized"} =>
        /\ rRaised = "none"
        /\ ProperlyNested(placeholder2tag, rOut, rStates, 1, <<>>, 0)

\* An output in which an open is closed and opened again between two
\* tokens that both lie inside it: it stood above an open to close.
C27_Witness ==
    /\ Rendered
    /\ \E i, j, k \in 1..Len(rOut) :
          /\ i < j /\ j < k
          /\ IsOpenToken(placeholder2tag, rOut[i]) /\ rOut[k] = rOut[i]
          /\ rOut[j] = <<placeholder2tag[rOut[i][1]].close_ph>>
          /\ \A m \in j..k : IsPlaceholderToken(placeholder2tag, rOut[m])
          /\ \E m \in i..j : ~IsPlaceholderToken(placeholder2tag, rOut[m])

\* ---------------------------------------------------------------------
\* The longest common subsequence under any predicate
\* ---------------------------------------------------------------------

\* The length of the longest list of index pairs into the first m and the
\* first n items that is strictly increasing in both components and whose
\* pairs all satisfy eq.
RECURSIVE LongestChain(_, _, _)
LongestChain(m, n, eq) ==
    IF m = 0 \/ n = 0 THEN 0
    ELSE Max(Max(LongestChain(m - 1, n, eq), LongestChain(m, n - 1, eq)),
             IF eq[m][n] THEN 1 + LongestChain(m - 1, n - 1, eq) ELSE 0)

\* The predicate is not transitive on the items: x ~ u, y ~ u and y ~ v
\* hold and x ~ v does not.
NotTransitive(inp) ==
    \E x, y \in 1..inp.lslen : \E u, v \in 1..inp.rslen :
        inp.eq[x][u] /\ inp.eq[y][u] /\ inp.eq[y][v] /\ ~inp.eq[x][v]

\* C28: longest_common_subsequence(A, B, eq) returns index pairs (i, j)
\* into the untrimmed sequences that are strictly increasing in both
\* components and each satisfy eq(A[i], B[j]), and no longer list of such
\* pairs exists, for any predicate eq, transitive or not, also when the
\* trimming of the prefix or of the suffix consumes a whole sequence.
C28_LongestCommonSubsequence ==
    lcsOut # NoLcs =>
        /\ \A k \in 1..Len(lcsOut) :
              /\ lcsOut[k][1] \in 0..(lcsIn.lslen - 1)
              /\ lcsOut[k][2] \in 0..(lcsIn.rslen - 1)
              /\ lcsIn.eq[lcsOut[k][1] + 1][lcsOut[k][2] + 1]
        /\ \A k \in 1..(Len(lcsOut) - 1) :
              /\ lcsOut[k][1] < lcsOut[k + 1][1]
              /\ lcsOut[k][2] < lcsOut[k + 1][2]
        /\ Len(lcsOut) = LongestChain(lcsIn.lslen, lcsIn.rslen, lcsIn.eq)

\* A call under a predicate that is not transitive in which the trimming
\* of the prefix consumes the whole left sequence and the right sequence
\* has items left.
C28_Witness ==
    /\ lcsOut # NoLcs /\ NotTransitive(lcsIn)
    /\ lcsIn.lslen >= 2 /\ lcsIn.lslen < lcsIn.rslen
    /\ TrimStart(0, lcsIn.lslen, lcsIn.rslen, lcsIn.eq) = lcsIn.lslen
    /\ Len(lcsOut) = lcsIn.lslen

\* ---------------------------------------------------------------------
\* The script applied by the formatter
\* ---------------------------------------------------------------------

\* The element structure below n: its tag and the structures of its
\* children in order.
RECURSIVE Structure(_, _)
Structure(t, n) ==
    <<t.tag[n], [i \in 1..Len(t.kids[n]) |-> Structure(t, t.kids[n][i])]>>

\* The same with every subtree marked diff:delete left out.
RECURSIVE LiveStructure(_, _)
LiveStructure(t, n) ==
    LET live == SelectSeq(t.kids[n], LAMBDA c : ~HasKey(t.attrib[c], DELETE_NAME))
    IN <<t.tag[n], [i \in 1..Len(live) |-> LiveStructure(t, live[i])]>>

\* The left copy of the Differ after the i-th action of the script: the
\* copy as it is when the next action is yielded, or as it is now.
LeftAfter(i) == IF i < Len(script) THEN lefts[i + 1] ELSE left

\* C29: when the script of Differ.diff(L, R) is applied action by action by
\* the formatter to a copy of L, every path resolves without error, and
\* after each action the formatter's tree without its subtrees marked
\* diff:delete has the element structure, tags and order of children, of
\* the left copy of the Differ after the same action.
C29_ScriptApplies ==
    (call.op = "diff" /\ fCalls >= 1) =>
        /\ fRaised = "none"
        /\ LiveStructure(ftree, ftree.root)
             = Structure(LeftAfter(fCalls), LeftAfter(fCalls).root)

\* The formatter has handled a whole script with an InsertNode, a MoveNode,
\* a text action and a DeleteNode, the MoveNode after a node was marked.
C29_Witness ==
    /\ call.op = "diff" /\ pc = "done" /\ fRaised = "none"
    /\ fCalls = Len(script) /\ fCalls >= 4
    /\ fAction.op = "DeleteNode"
    /\ \E i \in 1..Len(script) : script[i].op = "InsertNode"
    /\ \E i \in 1..Len(script) : script[i].op = "MoveNode"
    /\ \E i \in 1..Len(script) : script[i].op \in {"UpdateTextIn", "UpdateTextAfter"}

\* ---------------------------------------------------------------------
\* The left copy when the deletions start
\* ---------------------------------------------------------------------

\* The nodes that hang in the tree.
InTree(t) == Range(post_order_traverse(t, t.root))

\* The second loop of diff() is about to look at its first node.
DeleteStarts ==
    /\ call.op = "diff" /\ raised = "none" /\ pc = "delete"
    /\ todo = reverse_post_order_traverse(left, left.root)

\* C30: when the deletion phase of diff() starts, every matched left node
\* other than the root is a child of the partner of the parent of its right
\* partner, so every left node still unmatched has only unmatched
\* descendants; and a DeleteNode never takes a matched node out of the left
\* copy.
C30_MatchedInPlace ==
    /\ [](DeleteStarts =>
             /\ \A l \in (InTree(left) \cap DOMAIN l2rmap) \ {left.root} :
                   /\ l2rmap[l] # right.root
                   /\ Parent(left, l) = r2lmap[Parent(right, l2rmap[l])]
             /\ \A u \in InTree(left) \ DOMAIN l2rmap :
                   \A d \in Range(post_order_traverse(left, u)) :
                       d \notin DOMAIN l2rmap)
    /\ [][pc = "delete" =>
             \A n \in InTree(left) \ InTree(left') : n \notin DOMAIN l2rmap]_vars

\* The deletions start on a left copy with a node to delete whose child in
\* the tree given was matched and has been moved out of it.
C30_Witness ==
    /\ DeleteStarts
    /\ \E i \in 1..Len(script) : script[i].op = "MoveNode"
    /\ \E u \in InTree(left) \ DOMAIN l2rmap :
          /\ u \in InTree(call.left) /\ left.kids[u] = <<>>
          /\ \E c \in Range(call.left.kids[u]) : c \in DOMAIN l2rmap
====
